---- MODULE Spec2Model ----
(***************************************************************************)
(* Ontology extraction and layer-classification pipeline                   *)
(*   TTLParser.parse -> LayerClassifier.classify                           *)
(*     -> COBIT5Analyzer / ISO17025Analyzer .enhance_classification        *)
(*     -> OntologyImporter.import_with_layers -> add_memory (the sink)     *)
(* Python dicts are functions whose domain is the set of keys, lists are   *)
(* sequences, str values are strings, None is the value None.              *)
(***************************************************************************)
EXTENDS Integers, Sequences, FiniteSets, TLC

(***************************************************************************)
(* Text: the str operations the code uses                                  *)
(***************************************************************************)
UpperAlpha == "ABCDEFGHIJKLMNOPQRSTUVWXYZ"
LowerAlpha == "abcdefghijklmnopqrstuvwxyz"
DigitChars == "0123456789"

CharAt(s, i) == SubSeq(s, i, i)

CharsOf(s) == { CharAt(s, i) : i \in 1..Len(s) }

IndexIn(alpha, c) == CHOOSE i \in 1..Len(alpha) : CharAt(alpha, i) = c

\* str.lower() / str.upper(), character by character (ASCII letters)
LowerOf == [c \in CharsOf(UpperAlpha) |-> CharAt(LowerAlpha, IndexIn(UpperAlpha, c))]
UpperOf == [c \in CharsOf(LowerAlpha) |-> CharAt(UpperAlpha, IndexIn(LowerAlpha, c))]

RECURSIVE lower(_)
lower(s) ==
  IF s = "" THEN ""
  ELSE (LET c == Head(s) IN IF c \in DOMAIN LowerOf THEN LowerOf[c] ELSE c)
       \o lower(Tail(s))

RECURSIVE upper(_)
upper(s) ==
  IF s = "" THEN ""
  ELSE (LET c == Head(s) IN IF c \in DOMAIN UpperOf THEN UpperOf[c] ELSE c)
       \o upper(Tail(s))

\* Python `k in s` on strings
Contains(k, s) ==
  \E i \in 1..(Len(s) - Len(k) + 1) : SubSeq(s, i, i + Len(k) - 1) = k

\* str.startswith / a regex anchored with ^
StartsWith(s, p) == Len(p) <= Len(s) /\ SubSeq(s, 1, Len(p)) = p

\* a regex anchored with $ (the texts hold no newline)
EndsWith(s, p) ==
  Len(p) <= Len(s) /\ SubSeq(s, Len(s) - Len(p) + 1, Len(s)) = p

\* re.search(r'^<p>[A-Z]', s)
PrefixThenCapital(s, p) ==
  /\ StartsWith(s, p)
  /\ Len(s) > Len(p)
  /\ CharAt(s, Len(p) + 1) \in CharsOf(UpperAlpha)

\* Python's order on str, for sorted(): code-point order of the characters used
CodeOrder == " #-./" \o DigitChars \o ":" \o UpperAlpha \o "_" \o LowerAlpha

RECURSIVE StrLess(_, _)
StrLess(a, b) ==
  IF b = "" THEN FALSE
  ELSE IF a = "" THEN TRUE
  ELSE IF Head(a) = Head(b) THEN StrLess(Tail(a), Tail(b))
  ELSE IndexIn(CodeOrder, Head(a)) < IndexIn(CodeOrder, Head(b))

\* sorted(list(S)) for a set of str
RECURSIVE sorted(_)
sorted(S) ==
  IF S = {} THEN << >>
  ELSE LET m == CHOOSE x \in S : \A y \in S \ {x} : StrLess(x, y)
       IN  <<m>> \o sorted(S \ {m})

\* set(list)
SetOf(seq) == { seq[i] : i \in 1..Len(seq) }

(***************************************************************************)
(* dict operations                                                         *)
(***************************************************************************)
\* Python None: a value no str of the program equals
None == "<None>"

EmptyDict == [k \in {} |-> None]

\* d.get(k, default)
Get(d, k, default) == IF k \in DOMAIN d THEN d[k] ELSE default

\* d2 = d.copy(); d2[k] = v
Put(d, k, v) == [x \in (DOMAIN d) \cup {k} |-> IF x = k THEN v ELSE d[x]]

(***************************************************************************)
(* LayerClassifier                                                         *)
(***************************************************************************)
business_keywords ==
  { "domain", "process", "goal", "objective", "enabler", "control",
    "governance", "management", "audit", "compliance", "risk",
    "stakeholder", "framework", "practice", "activity", "outcome",
    "metric", "kpi", "performance", "maturity", "capability",
    "service", "resource", "asset", "value", "benefit",
    "requirement", "standard", "policy", "procedure", "guideline",
    "laboratory", "test", "sample", "analysis", "result",
    "calibration", "measurement", "uncertainty", "traceability",
    "quality", "assurance", "accreditation", "certification" }

technical_keywords ==
  { "property", "class", "individual", "restriction", "constraint",
    "axiom", "assertion", "inference", "reasoning", "ontology",
    "namespace", "prefix", "uri", "iri", "rdf", "owl", "rdfs",
    "domain", "range", "inverse", "functional", "transitive",
    "symmetric", "reflexive", "irreflexive", "asymmetric",
    "equivalent", "disjoint", "complement", "union", "intersection",
    "cardinality", "some", "only", "exactly", "min", "max",
    "annotation", "comment", "label", "seealso", "isdefinedby" }

core_keywords ==
  { "organization", "role", "responsibility", "person", "user",
    "system", "application", "data", "information", "document",
    "time", "date", "period", "duration", "event", "action",
    "status", "state", "type", "category", "classification" }

\* technical_patterns: ^has[A-Z] and ^is[A-Z]; ^owl: ^rdfs: ^rdf:; and X$
technical_patterns_capital == { "has", "is" }
technical_patterns_prefix == { "owl:", "rdfs:", "rdf:" }
technical_patterns_suffix ==
  { "Property", "Class", "Restriction", "Constraint", "Axiom" }

\* business_patterns: every one is X$
business_patterns ==
  { "Goal", "Process", "Domain", "Enabler", "Control", "Framework",
    "Standard", "Requirement", "Practice", "Activity", "Outcome", "Metric" }

AnyIn(words, text) == \E w \in words : Contains(w, text)

is_technical_entity(entity, text_content) ==
  \/ AnyIn(technical_keywords, text_content)
  \/ LET local_name == Get(entity, "local_name", "")
     IN  \/ \E p \in technical_patterns_capital : PrefixThenCapital(local_name, p)
         \/ \E p \in technical_patterns_prefix : StartsWith(local_name, p)
         \/ \E p \in technical_patterns_suffix : EndsWith(local_name, p)
  \/ LET entity_type == Get(entity, "type", "")
     IN  Contains("Property", entity_type) \/ entity_type \in {"Class", "Restriction"}
  \/ LET prefixed_name == Get(entity, "prefixed_name", "")
     IN  \E ns \in {"owl:", "rdfs:", "rdf:", "xsd:"} : StartsWith(prefixed_name, ns)

\* _is_business_entity taking every namespace prefix for a business namespace
is_business_entity_any_namespace(entity, text_content) ==
  \/ AnyIn(business_keywords, text_content)
  \/ LET local_name == Get(entity, "local_name", "")
     IN  \E p \in business_patterns : EndsWith(local_name, p)
  \/ Contains(":", Get(entity, "prefixed_name", ""))

is_business_entity(entity, text_content) ==
  \/ AnyIn(business_keywords, text_content)
  \/ LET local_name == Get(entity, "local_name", "")
     IN  \E p \in business_patterns : EndsWith(local_name, p)
  \/ LET prefixed_name == Get(entity, "prefixed_name", "")
     IN  \E ns \in {"cobit5:", "iso17025:", "bfo:", "sosa:"} : StartsWith(prefixed_name, ns)

\* relationships_count that also counts the assigned layers and primary layer
relationships_count_with_assignment(entity) ==
    (IF "subclass_of" \in DOMAIN entity THEN Len(entity["subclass_of"]) ELSE 0)
  + (IF "superclass_of" \in DOMAIN entity THEN Len(entity["superclass_of"]) ELSE 0)
  + (IF "domain" \in DOMAIN entity THEN Len(entity["domain"]) ELSE 0)
  + (IF "range" \in DOMAIN entity THEN Len(entity["range"]) ELSE 0)
  + (IF "layers" \in DOMAIN entity THEN Len(entity["layers"]) ELSE 0)
  + (IF "primary_layer" \in DOMAIN entity THEN 1 ELSE 0)

relationships_count(entity) ==
    (IF "subclass_of" \in DOMAIN entity THEN Len(entity["subclass_of"]) ELSE 0)
  + (IF "superclass_of" \in DOMAIN entity THEN Len(entity["superclass_of"]) ELSE 0)
  + (IF "domain" \in DOMAIN entity THEN Len(entity["domain"]) ELSE 0)
  + (IF "range" \in DOMAIN entity THEN Len(entity["range"]) ELSE 0)

\* _is_core_entity asking for more than three references
is_core_entity_above_three(entity, text_content) ==
  \/ AnyIn(core_keywords, text_content)
  \/ relationships_count(entity) > 3

is_core_entity(entity, text_content) ==
  \/ AnyIn(core_keywords, text_content)
  \/ relationships_count(entity) >= 3

classify_property(property_entity) ==
  LET prop_type == Get(property_entity, "type", "")
      domain == Get(property_entity, "domain", << >>)
      range_vals == Get(property_entity, "range", << >>)
      business_domains == {"Goal", "Process", "Domain", "Control", "Framework"}
      refs == domain \o range_vals
  IN  (IF prop_type = "ObjectProperty"
         THEN (IF \E i \in 1..Len(refs) : AnyIn(business_domains, refs[i])
                 THEN {"business"} ELSE {})
         ELSE IF prop_type = "AnnotationProperty" THEN {"technical"} ELSE {})
      \cup
      (IF Get(property_entity, "functional", FALSE)
          \/ Get(property_entity, "inverse_functional", FALSE)
         THEN {"technical"} ELSE {})

\* _classify_class without the root-class rule
classify_class_without_root_rule(class_entity) ==
  LET superclass_count == Len(Get(class_entity, "superclass_of", << >>))
  IN  IF superclass_count >= 3 THEN {"core"} ELSE {}

classify_class(class_entity) ==
  LET superclass_count == Len(Get(class_entity, "superclass_of", << >>))
      subclass_of == Get(class_entity, "subclass_of", << >>)
  IN  (IF superclass_count >= 3 THEN {"core"} ELSE {})
      \cup (IF subclass_of = << >> THEN {"core"} ELSE {})

classify_individual(individual_entity) ==
  LET individual_type == lower(Get(individual_entity, "type_local_name", ""))
      business_types == {"goal", "process", "domain", "control", "enabler", "framework"}
  IN  IF AnyIn(business_types, individual_type) THEN {"business"} ELSE {}

\* the set built by _determine_layers before the default is applied
indicated_layers(entity, entity_type) ==
  LET local_name == lower(Get(entity, "local_name", ""))
      prefixed_name == lower(Get(entity, "prefixed_name", ""))
      label == lower(Get(entity, "label", ""))
      comment == lower(Get(entity, "comment", ""))
      description == lower(Get(entity, "description", ""))
      text_content == local_name \o " " \o prefixed_name \o " " \o label
                      \o " " \o comment \o " " \o description
  IN  (IF is_technical_entity(entity, text_content) THEN {"technical"} ELSE {})
      \cup (IF is_business_entity(entity, text_content) THEN {"business"} ELSE {})
      \cup (IF is_core_entity(entity, text_content) THEN {"core"} ELSE {})
      \cup (IF entity_type = "property" THEN classify_property(entity)
            ELSE IF entity_type = "class" THEN classify_class(entity)
            ELSE IF entity_type = "individual" THEN classify_individual(entity)
            ELSE {})

\* determine_layers without its default: no layer when no rule fires
determine_layers_no_default(entity, entity_type) ==
  sorted(indicated_layers(entity, entity_type))

determine_layers(entity, entity_type) ==
  LET layers == indicated_layers(entity, entity_type)
  IN  sorted(IF layers = {} THEN {"technical"} ELSE layers)

\* get_primary_layer with core ranked above business
get_primary_layer_core_first(layers) ==
  IF layers = << >> THEN "technical"
  ELSE IF "core" \in SetOf(layers) THEN "core"
  ELSE IF "business" \in SetOf(layers) THEN "business"
  ELSE "technical"

get_primary_layer(layers) ==
  IF layers = << >> THEN "technical"
  ELSE IF "business" \in SetOf(layers) THEN "business"
  ELSE IF "core" \in SetOf(layers) THEN "core"
  ELSE "technical"

\* _classify_entities with a layer set kept across the entities of the loop
classify_entities_sharing(entities, entity_type) ==
  [i \in 1..Len(entities) |->
     LET seen == UNION { SetOf(determine_layers(entities[j], entity_type)) : j \in 1..i }
         layers == sorted(seen)
     IN  Put(Put(entities[i], "layers", layers),
             "primary_layer", get_primary_layer(layers))]

\* _classify_entities building a new record of the name and the layers alone
classify_entities_fresh_record(entities, entity_type) ==
  [i \in 1..Len(entities) |->
     LET layers == determine_layers(entities[i], entity_type)
     IN  [local_name |-> Get(entities[i], "local_name", ""),
          layers |-> layers,
          primary_layer |-> get_primary_layer(layers)]]

classify_entities(entities, entity_type) ==
  [i \in 1..Len(entities) |->
     LET layers == determine_layers(entities[i], entity_type)
     IN  Put(Put(entities[i], "layers", layers),
             "primary_layer", get_primary_layer(layers))]

Categories == <<"classes", "properties", "individuals">>

CountIn(data, category, P(_)) ==
  IF category \in DOMAIN data
    THEN Cardinality({ i \in 1..Len(data[category]) : P(data[category][i]) })
    ELSE 0

\* the statistics counting an entity in the row of each layer it belongs to
get_layer_statistics_by_membership(classified_data) ==
  LET count(row, category) ==
        IF row = "multi_layer"
          THEN CountIn(classified_data, category,
                       LAMBDA e : Len(Get(e, "layers", << >>)) > 1)
          ELSE CountIn(classified_data, category,
                       LAMBDA e : row \in SetOf(Get(e, "layers", << >>)))
  IN  [row \in {"business", "technical", "core", "multi_layer"} |->
         [classes |-> count(row, "classes"),
          properties |-> count(row, "properties"),
          individuals |-> count(row, "individuals"),
          total |-> count(row, "classes") + count(row, "properties")
                    + count(row, "individuals")]]

\* an entity adds one to the row named by its primary_layer, whichever of the
\* four rows that is, and one more to multi_layer when it has several layers
get_layer_statistics(classified_data) ==
  LET count(row, category) ==
        CountIn(classified_data, category,
                LAMBDA e : Get(e, "primary_layer", "technical") = row)
        + (IF row = "multi_layer"
             THEN CountIn(classified_data, category,
                          LAMBDA e : Len(Get(e, "layers", << >>)) > 1)
             ELSE 0)
  IN  [row \in {"business", "technical", "core", "multi_layer"} |->
         [classes |-> count(row, "classes"),
          properties |-> count(row, "properties"),
          individuals |-> count(row, "individuals"),
          total |-> count(row, "classes") + count(row, "properties")
                    + count(row, "individuals")]]

TypeOfCategory(category) ==
  CASE category = "classes" -> "class"
    [] category = "properties" -> "property"
    [] category = "individuals" -> "individual"

\* classify() past its error check
classify_categories(ontology_data) ==
  LET classified ==
        [k \in DOMAIN ontology_data |->
           IF k \in SetOf(Categories)
             THEN classify_entities(ontology_data[k], TypeOfCategory(k))
             ELSE ontology_data[k]]
  IN  Put(classified, "layer_statistics", get_layer_statistics(classified))

\* classify without its error check
classify_no_error_check(ontology_data) ==
  classify_categories(ontology_data)

classify(ontology_data) ==
  IF "error" \in DOMAIN ontology_data THEN ontology_data
  ELSE classify_categories(ontology_data)

(***************************************************************************)
(* Helpers shared by the two analyzers                                     *)
(***************************************************************************)
\* The lexicons are attributes of the analyzer object: "constructed" as
\* __init__ assigns them, "emptied" when the caller has replaced each by an
\* empty collection.
VARIABLE lexicons

AnyLowerIn(names, text_lower) == \E n \in names : Contains(lower(n), text_lower)

\* the entities of the three categories, in the order the analysis loops visit them
AllEntities(data) ==
  Get(data, "classes", << >>) \o Get(data, "properties", << >>)
    \o Get(data, "individuals", << >>)

\* the truthy values of field `key`, in order of first occurrence, without repeats
RECURSIVE DistinctField(_, _, _)
DistinctField(entities, key, acc) ==
  IF entities = << >> THEN acc
  ELSE LET v == Get(Head(entities), key, None)
       IN  DistinctField(Tail(entities), key,
             IF v # None /\ v # "" /\ v \notin SetOf(acc) THEN Append(acc, v) ELSE acc)

\* first element of the sequence `order` that satisfies P, or None
FirstOf(order, P(_)) ==
  IF \E i \in 1..Len(order) : P(order[i])
    THEN order[CHOOSE i \in 1..Len(order) :
                 P(order[i]) /\ \A j \in 1..(i - 1) : ~P(order[j])]
    ELSE None

(***************************************************************************)
(* COBIT5Analyzer                                                          *)
(***************************************************************************)
cobit5_domains ==
  IF lexicons = "emptied" THEN << >> ELSE <<"EDM", "APO", "BAI", "DSS", "MEA">>

cobit5_business_entities ==
  IF lexicons = "emptied" THEN {} ELSE
  { "EnterpriseGoal", "ITGoal", "Goal", "Process", "Domain",
    "Enabler", "Control", "Framework", "Practice", "Activity",
    "Outcome", "Metric", "Stakeholder", "Role", "Responsibility",
    "RiskAssessment", "ComplianceRequirement", "AuditFinding" }

cobit5_technical_entities ==
  IF lexicons = "emptied" THEN {} ELSE
  { "ObjectProperty", "DatatypeProperty", "AnnotationProperty",
    "Restriction", "Constraint", "ValidationRule", "InferenceRule" }

cobit5_core_entities ==
  IF lexicons = "emptied" THEN {} ELSE
  { "Organization", "Person", "System", "Application", "Information",
    "Service", "Resource", "Asset", "Time", "Date", "Status", "Type" }

classify_cobit5_entity(entity_name, entity_type) ==
  LET entity_lower == lower(entity_name)
  IN  (IF AnyLowerIn(SetOf(cobit5_domains), entity_lower) THEN {"business"} ELSE {})
      \cup (IF AnyLowerIn(cobit5_business_entities, entity_lower) THEN {"business"} ELSE {})
      \cup (IF AnyLowerIn(cobit5_technical_entities, entity_lower) THEN {"technical"} ELSE {})
      \cup (IF AnyLowerIn(cobit5_core_entities, entity_lower) THEN {"core"} ELSE {})

has_business_domain_range(domain, range_vals) ==
  LET all_refs == domain \o range_vals
  IN  \E i \in 1..Len(all_refs) :
        AnyLowerIn(cobit5_business_entities, lower(all_refs[i]))

get_cobit5_primary_layer(layers) ==
  IF "business" \in layers THEN "business"
  ELSE IF "core" \in layers THEN "core"
  ELSE "technical"

get_cobit5_domain(entity_name) ==
  LET entity_upper == upper(entity_name)
  IN  FirstOf(cobit5_domains, LAMBDA code : Contains(code, entity_upper))

get_business_relevance(entity_name) ==
  LET entity_lower == lower(entity_name)
  IN  IF AnyIn({"goal", "process", "domain", "control", "audit", "compliance"},
               entity_lower) THEN "high"
      ELSE IF AnyIn({"enabler", "framework", "practice", "activity", "metric"},
                    entity_lower) THEN "medium"
      ELSE "low"

assess_governance_relevance(property_data) ==
  LET prop_name == lower(Get(property_data, "local_name", ""))
  IN  IF AnyIn({"governance", "control", "audit", "compliance", "risk", "monitor"},
               prop_name) THEN "high"
      ELSE IF Contains("has", prop_name) \/ Contains("is", prop_name) THEN "medium"
      ELSE "low"

\* re.search(r'(EDM|APO|BAI|DSS|MEA)\d{2}', entity_name.upper()): leftmost match
extract_process_code(entity_name) ==
  LET u == upper(entity_name)
      hit(i) == /\ SubSeq(u, i, i + 2) \in SetOf(cobit5_domains)
                /\ CharAt(u, i + 3) \in CharsOf(DigitChars)
                /\ CharAt(u, i + 4) \in CharsOf(DigitChars)
      at == { i \in 1..(Len(u) - 4) : hit(i) }
  IN  IF at = {} THEN None
      ELSE LET i == CHOOSE x \in at : \A y \in at : x <= y
           IN  SubSeq(u, i, i + 4)

\* _enhance_class_classification keeping the analyzer's layers alone
cobit5_enhance_class_replacing(cls) ==
  LET local_name == Get(cls, "local_name", "")
      cobit5_layers == classify_cobit5_entity(local_name, "class")
  IN  Put(Put(Put(Put(cls,
        "layers", sorted(cobit5_layers)),
        "primary_layer", get_cobit5_primary_layer(cobit5_layers)),
        "cobit5_domain", get_cobit5_domain(local_name)),
        "business_relevance", get_business_relevance(local_name))

cobit5_enhance_class(cls) ==
  LET local_name == Get(cls, "local_name", "")
      cobit5_layers == classify_cobit5_entity(local_name, "class")
      enhanced_layers == SetOf(Get(cls, "layers", << >>)) \cup cobit5_layers
  IN  Put(Put(Put(Put(cls,
        "layers", sorted(enhanced_layers)),
        "primary_layer", get_cobit5_primary_layer(enhanced_layers)),
        "cobit5_domain", get_cobit5_domain(local_name)),
        "business_relevance", get_business_relevance(local_name))

cobit5_enhance_property(prop) ==
  LET local_name == Get(prop, "local_name", "")
      cobit5_layers ==
        classify_cobit5_entity(local_name, "property")
        \cup (IF has_business_domain_range(Get(prop, "domain", << >>),
                                           Get(prop, "range", << >>))
                THEN {"business"} ELSE {})
      enhanced_layers == SetOf(Get(prop, "layers", << >>)) \cup cobit5_layers
  IN  Put(Put(Put(prop,
        "layers", sorted(enhanced_layers)),
        "primary_layer", get_cobit5_primary_layer(enhanced_layers)),
        "governance_relevance", assess_governance_relevance(prop))

cobit5_enhance_individual(individual) ==
  LET local_name == Get(individual, "local_name", "")
      type_name == Get(individual, "type_local_name", "")
      cobit5_layers ==
        classify_cobit5_entity(local_name, "individual")
        \cup (IF type_name \in cobit5_business_entities THEN {"business"}
              ELSE IF type_name \in cobit5_core_entities THEN {"core"} ELSE {})
      enhanced_layers == SetOf(Get(individual, "layers", << >>)) \cup cobit5_layers
  IN  Put(Put(Put(individual,
        "layers", sorted(enhanced_layers)),
        "primary_layer", get_cobit5_primary_layer(enhanced_layers)),
        "cobit5_process_code", extract_process_code(local_name))

generate_cobit5_analysis(enhanced_data) ==
  LET domains_found == DistinctField(AllEntities(enhanced_data), "cobit5_domain", << >>)
      total_domains == Len(cobit5_domains)
      found_domains == Len(domains_found)
      layer_stats == Get(enhanced_data, "layer_statistics", EmptyDict)
      business_entities == Get(Get(layer_stats, "business", EmptyDict), "total", 0)
  IN  [domains_found |-> domains_found,
       governance_coverage |->
         [domains_found |-> found_domains,
          total_domains |-> total_domains,
          coverage_percentage |->
            IF total_domains > 0 THEN (found_domains * 100) \div total_domains ELSE 0],
       process_distribution |-> EmptyDict,
       business_readiness |->
         IF business_entities >= 20 THEN "high"
         ELSE IF business_entities >= 10 THEN "medium"
         ELSE "low"]

cobit5_enhance_classification(data) ==
  LET enhanced_data ==
        [k \in DOMAIN data |->
           IF k = "classes"
             THEN [i \in 1..Len(data[k]) |-> cobit5_enhance_class(data[k][i])]
           ELSE IF k = "properties"
             THEN [i \in 1..Len(data[k]) |-> cobit5_enhance_property(data[k][i])]
           ELSE IF k = "individuals"
             THEN [i \in 1..Len(data[k]) |-> cobit5_enhance_individual(data[k][i])]
           ELSE data[k]]
  IN  Put(enhanced_data, "cobit5_analysis", generate_cobit5_analysis(enhanced_data))

(***************************************************************************)
(* ISO17025Analyzer                                                        *)
(***************************************************************************)
iso17025_clauses ==
  IF lexicons = "emptied" THEN << >> ELSE <<"4", "5", "6", "7", "8">>

laboratory_business_entities ==
  IF lexicons = "emptied" THEN {} ELSE
  { "Laboratory", "TestMethod", "CalibrationMethod", "Sample", "Specimen",
    "TestResult", "CalibrationResult", "Certificate", "Report",
    "Equipment", "Instrument", "Standard", "ReferenceStandard",
    "Uncertainty", "Traceability", "Accreditation", "Competence",
    "QualityControl", "QualityAssurance", "Validation", "Verification",
    "NonConformity", "CorrectiveAction", "PreventiveAction",
    "CustomerComplaint", "InternalAudit", "ManagementReview" }

laboratory_technical_entities ==
  IF lexicons = "emptied" THEN {} ELSE
  { "MeasurementProcedure", "TestProcedure", "CalibrationProcedure",
    "SamplingProcedure", "DataProcessing", "StatisticalAnalysis",
    "UncertaintyCalculation", "TraceabilityChain", "MeasurementModel",
    "EnvironmentalCondition", "SafetyRequirement", "TechnicalRecord" }

laboratory_core_entities ==
  IF lexicons = "emptied" THEN {} ELSE
  { "Person", "Staff", "TechnicalPersonnel", "Customer", "Client",
    "Supplier", "AccreditationBody", "RegulatoryAuthority",
    "Document", "Record", "Procedure", "Policy", "Manual",
    "Location", "Facility", "Environment", "Time", "Date" }

\* _classify_iso17025_entity looking for the terms as they are spelt
classify_iso17025_entity_case_sensitive(entity_name, entity_type) ==
  LET entity_lower == lower(entity_name)
  IN  (IF AnyIn(laboratory_business_entities, entity_lower) THEN {"business"} ELSE {})
      \cup (IF AnyIn(laboratory_technical_entities, entity_lower) THEN {"technical"} ELSE {})
      \cup (IF AnyIn(laboratory_core_entities, entity_lower) THEN {"core"} ELSE {})

classify_iso17025_entity(entity_name, entity_type) ==
  LET entity_lower == lower(entity_name)
  IN  (IF AnyLowerIn(laboratory_business_entities, entity_lower) THEN {"business"} ELSE {})
      \cup (IF AnyLowerIn(laboratory_technical_entities, entity_lower) THEN {"technical"} ELSE {})
      \cup (IF AnyLowerIn(laboratory_core_entities, entity_lower) THEN {"core"} ELSE {})

is_measurement_property(property_data) ==
  AnyIn({"measure", "calibrat", "uncertain", "trace", "accura", "precis"},
        lower(Get(property_data, "local_name", "")))

\* _get_iso17025_primary_layer with core ranked above business
get_iso17025_primary_layer_core_first(layers) ==
  IF "core" \in layers THEN "core"
  ELSE IF "business" \in layers THEN "business"
  ELSE "technical"

get_iso17025_primary_layer(layers) ==
  IF "business" \in layers THEN "business"
  ELSE IF "core" \in layers THEN "core"
  ELSE "technical"

\* the keys of the clause_mapping literal, in the order it lists them
clause_mapping_order == <<"4", "5", "6", "7", "8">>

clause_mapping ==
  [c \in SetOf(clause_mapping_order) |->
     CASE c = "4" -> {"management", "system", "policy", "organization"}
       [] c = "5" -> {"structure", "personnel", "responsibility", "authority"}
       [] c = "6" -> {"resource", "equipment", "facility", "environment", "competence"}
       [] c = "7" -> {"process", "method", "procedure", "sample", "test", "calibration"}
       [] c = "8" -> {"record", "document", "review", "audit", "improvement"}]

get_iso17025_clause(entity_name) ==
  LET entity_lower == lower(entity_name)
  IN  FirstOf(clause_mapping_order,
              LAMBDA clause : AnyIn(clause_mapping[clause], entity_lower))

get_laboratory_relevance(entity_name) ==
  LET entity_lower == lower(entity_name)
  IN  IF AnyIn({"test", "calibration", "measurement", "sample", "result", "uncertainty"},
               entity_lower) THEN "high"
      ELSE IF AnyIn({"equipment", "method", "procedure", "standard", "quality"},
                    entity_lower) THEN "medium"
      ELSE "low"

assess_measurement_relevance(property_data) ==
  LET prop_name == lower(Get(property_data, "local_name", ""))
  IN  IF AnyIn({"measure", "calibrat", "uncertain", "trace", "accura"}, prop_name)
        THEN "high"
      ELSE IF Contains("has", prop_name) /\ AnyIn({"value", "result", "data"}, prop_name)
        THEN "medium"
      ELSE "low"

laboratory_functions ==
  <<"testing", "calibration", "sampling", "quality", "management", "technical">>

laboratory_function_keywords ==
  [f \in SetOf(laboratory_functions) |->
     CASE f = "testing" -> {"test", "analysis", "examination"}
       [] f = "calibration" -> {"calibrat", "standard", "reference"}
       [] f = "sampling" -> {"sample", "specimen", "collection"}
       [] f = "quality" -> {"quality", "control", "assurance"}
       [] f = "management" -> {"management", "administration", "governance"}
       [] f = "technical" -> {"technical", "method", "procedure"}]

get_laboratory_function(individual_data) ==
  LET name == lower(Get(individual_data, "local_name", ""))
      type_name == lower(Get(individual_data, "type_local_name", ""))
      found == FirstOf(laboratory_functions,
                 LAMBDA f : \E kw \in laboratory_function_keywords[f] :
                              Contains(kw, name) \/ Contains(kw, type_name))
  IN  IF found = None THEN "general" ELSE found

iso17025_enhance_class(cls) ==
  LET local_name == Get(cls, "local_name", "")
      iso_layers == classify_iso17025_entity(local_name, "class")
      enhanced_layers == SetOf(Get(cls, "layers", << >>)) \cup iso_layers
  IN  Put(Put(Put(Put(cls,
        "layers", sorted(enhanced_layers)),
        "primary_layer", get_iso17025_primary_layer(enhanced_layers)),
        "iso17025_clause", get_iso17025_clause(local_name)),
        "laboratory_relevance", get_laboratory_relevance(local_name))

iso17025_enhance_property(prop) ==
  LET local_name == Get(prop, "local_name", "")
      iso_layers ==
        classify_iso17025_entity(local_name, "property")
        \cup (IF is_measurement_property(prop) THEN {"business"} ELSE {})
      enhanced_layers == SetOf(Get(prop, "layers", << >>)) \cup iso_layers
  IN  Put(Put(Put(prop,
        "layers", sorted(enhanced_layers)),
        "primary_layer", get_iso17025_primary_layer(enhanced_layers)),
        "measurement_relevance", assess_measurement_relevance(prop))

iso17025_enhance_individual(individual) ==
  LET local_name == Get(individual, "local_name", "")
      type_name == Get(individual, "type_local_name", "")
      iso_layers ==
        classify_iso17025_entity(local_name, "individual")
        \cup (IF type_name \in laboratory_business_entities THEN {"business"}
              ELSE IF type_name \in laboratory_core_entities THEN {"core"} ELSE {})
      enhanced_layers == SetOf(Get(individual, "layers", << >>)) \cup iso_layers
  IN  Put(Put(Put(individual,
        "layers", sorted(enhanced_layers)),
        "primary_layer", get_iso17025_primary_layer(enhanced_layers)),
        "laboratory_function", get_laboratory_function(individual))

generate_iso17025_analysis(enhanced_data) ==
  LET clause_coverage ==
        SetOf(DistinctField(AllEntities(enhanced_data), "iso17025_clause", << >>))
      total_clauses == Len(iso17025_clauses)
      covered_clauses == Cardinality(clause_coverage)
  IN  [clauses_covered |-> sorted(clause_coverage),
       laboratory_coverage |->
         [clauses_covered |-> covered_clauses,
          total_clauses |-> total_clauses,
          coverage_percentage |->
            IF total_clauses > 0 THEN (covered_clauses * 100) \div total_clauses ELSE 0],
       measurement_capabilities |-> EmptyDict,
       compliance_readiness |->
         IF covered_clauses >= 4 THEN "high"
         ELSE IF covered_clauses >= 2 THEN "medium"
         ELSE "low"]

iso17025_enhance_classification(data) ==
  LET enhanced_data ==
        [k \in DOMAIN data |->
           IF k = "classes"
             THEN [i \in 1..Len(data[k]) |-> iso17025_enhance_class(data[k][i])]
           ELSE IF k = "properties"
             THEN [i \in 1..Len(data[k]) |-> iso17025_enhance_property(data[k][i])]
           ELSE IF k = "individuals"
             THEN [i \in 1..Len(data[k]) |-> iso17025_enhance_individual(data[k][i])]
           ELSE data[k]]
  IN  Put(enhanced_data, "iso17025_analysis", generate_iso17025_analysis(enhanced_data))

(***************************************************************************)
(* TTLParser                                                               *)
(* A parsed file is [namespaces, triples]: the bound (prefix, uri) pairs   *)
(* and the triples, each as a sequence in the store's iteration order.     *)
(* A triple is [s, p, o, lit]; lit tells a Literal object from a URIRef.   *)
(***************************************************************************)
RDF_NS == "http://www.w3.org/1999/02/22-rdf-syntax-ns#"
RDFS_NS == "http://www.w3.org/2000/01/rdf-schema#"
OWL_NS == "http://www.w3.org/2002/07/owl#"
XSD_NS == "http://www.w3.org/2001/XMLSchema#"
DCTERMS_NS == "http://purl.org/dc/terms/"

RDF_type == RDF_NS \o "type"
OWL_Class == OWL_NS \o "Class"
OWL_Ontology == OWL_NS \o "Ontology"
OWL_ObjectProperty == OWL_NS \o "ObjectProperty"
OWL_DatatypeProperty == OWL_NS \o "DatatypeProperty"
OWL_AnnotationProperty == OWL_NS \o "AnnotationProperty"

\* rdf_graph.triples((s, p, o)) with None as the wildcard; a URIRef pattern
\* never matches a Literal object
triples(g, s, p, o) ==
  SelectSeq(g, LAMBDA t : /\ (s = None \/ t.s = s)
                          /\ (p = None \/ t.p = p)
                          /\ (o = None \/ (~t.lit /\ t.o = o)))

Map(seq, F(_)) == [i \in 1..Len(seq) |-> F(seq[i])]

Objects(g, s, p) == Map(triples(g, s, p, None), LAMBDA t : t.o)

Subjects(g, p, o) == Map(triples(g, None, p, o), LAMBDA t : t.s)

\* the elements of a sequence in order of first occurrence
RECURSIVE Dedup(_, _)
Dedup(seq, acc) ==
  IF seq = << >> THEN acc
  ELSE Dedup(Tail(seq), IF Head(seq) \in SetOf(acc) THEN acc ELSE Append(acc, Head(seq)))

\* every order in which a Python set may be iterated
Orderings(S) ==
  { q \in [1..Cardinality(S) -> S] : \A i, j \in DOMAIN q : i # j => q[i] # q[j] }

get_literal_value(g, subject, predicate) ==
  LET found == triples(g, subject, predicate, None)
  IN  IF found # << >> THEN found[1].o ELSE ""

\* uri.split(sep)[-1]
AfterLast(uri, sep) ==
  LET at == { i \in 1..Len(uri) : CharAt(uri, i) = sep }
      last == CHOOSE i \in at : \A j \in at : j <= i
  IN  SubSeq(uri, last + 1, Len(uri))

get_local_name(uri) ==
  IF Contains("#", uri) THEN AfterLast(uri, "#")
  ELSE IF Contains("/", uri) THEN AfterLast(uri, "/")
  ELSE uri

\* namespace_map.items() is walked in insertion order; the first match returns
get_prefixed_name(namespace_map, uri) ==
  LET hits == { i \in 1..Len(namespace_map) : StartsWith(uri, namespace_map[i][2]) }
  IN  IF hits = {} THEN get_local_name(uri)
      ELSE LET i == CHOOSE x \in hits : \A y \in hits : x <= y
               prefix == namespace_map[i][1]
               local_part == SubSeq(uri, Len(namespace_map[i][2]) + 1, Len(uri))
           IN  IF prefix # "" THEN prefix \o ":" \o local_part ELSE local_part

extract_metadata(g) ==
  LET onts == triples(g, None, RDF_type, OWL_Ontology)
  IN  IF onts = << >> THEN EmptyDict
      ELSE LET s == onts[1].s
           IN  [uri |-> s,
                title |-> get_literal_value(g, s, DCTERMS_NS \o "title"),
                description |-> get_literal_value(g, s, DCTERMS_NS \o "description"),
                version |-> get_literal_value(g, s, OWL_NS \o "versionInfo"),
                creator |-> get_literal_value(g, s, DCTERMS_NS \o "creator"),
                created |-> get_literal_value(g, s, DCTERMS_NS \o "created"),
                modified |-> get_literal_value(g, s, DCTERMS_NS \o "modified"),
                imports |-> Objects(g, s, OWL_NS \o "imports")]

extract_classes(g, ns) ==
  Map(triples(g, None, RDF_type, OWL_Class), LAMBDA t :
    [uri |-> t.s,
     local_name |-> get_local_name(t.s),
     prefixed_name |-> get_prefixed_name(ns, t.s),
     label |-> get_literal_value(g, t.s, RDFS_NS \o "label"),
     comment |-> get_literal_value(g, t.s, RDFS_NS \o "comment"),
     description |-> get_literal_value(g, t.s, DCTERMS_NS \o "description"),
     subclass_of |-> Objects(g, t.s, RDFS_NS \o "subClassOf"),
     superclass_of |-> Subjects(g, RDFS_NS \o "subClassOf", t.s),
     equivalent_class |-> Objects(g, t.s, OWL_NS \o "equivalentClass"),
     disjoint_with |-> Objects(g, t.s, OWL_NS \o "disjointWith")])

HasType(g, s, type_uri) == triples(g, s, RDF_type, type_uri) # << >>

build_property_data(g, ns, prop_uri, prop_type) ==
  [uri |-> prop_uri,
   local_name |-> get_local_name(prop_uri),
   prefixed_name |-> get_prefixed_name(ns, prop_uri),
   type |-> prop_type,
   label |-> get_literal_value(g, prop_uri, RDFS_NS \o "label"),
   comment |-> get_literal_value(g, prop_uri, RDFS_NS \o "comment"),
   description |-> get_literal_value(g, prop_uri, DCTERMS_NS \o "description"),
   domain |-> Objects(g, prop_uri, RDFS_NS \o "domain"),
   range |-> Objects(g, prop_uri, RDFS_NS \o "range"),
   subproperty_of |-> Objects(g, prop_uri, RDFS_NS \o "subPropertyOf"),
   inverse_of |-> Objects(g, prop_uri, OWL_NS \o "inverseOf"),
   functional |-> HasType(g, prop_uri, OWL_NS \o "FunctionalProperty"),
   inverse_functional |-> HasType(g, prop_uri, OWL_NS \o "InverseFunctionalProperty"),
   transitive |-> HasType(g, prop_uri, OWL_NS \o "TransitiveProperty"),
   symmetric |-> HasType(g, prop_uri, OWL_NS \o "SymmetricProperty"),
   asymmetric |-> HasType(g, prop_uri, OWL_NS \o "AsymmetricProperty"),
   reflexive |-> HasType(g, prop_uri, OWL_NS \o "ReflexiveProperty"),
   irreflexive |-> HasType(g, prop_uri, OWL_NS \o "IrreflexiveProperty")]

extract_properties(g, ns) ==
  Map(triples(g, None, RDF_type, OWL_ObjectProperty),
      LAMBDA t : build_property_data(g, ns, t.s, "ObjectProperty"))
  \o Map(triples(g, None, RDF_type, OWL_DatatypeProperty),
         LAMBDA t : build_property_data(g, ns, t.s, "DatatypeProperty"))
  \o Map(triples(g, None, RDF_type, OWL_AnnotationProperty),
         LAMBDA t : build_property_data(g, ns, t.s, "AnnotationProperty"))

\* the dict built by the loop of _get_individual_properties: rdf:type is
\* skipped; a value is str(o) for a Literal and a dict for a URIRef; one value
\* is stored as it is, several values of one name as the list of them in order
get_individual_properties(g, ns, individual_uri) ==
  LET ts == SelectSeq(triples(g, individual_uri, None, None),
                      LAMBDA t : get_local_name(t.p) # "type")
      value(t) == IF t.lit THEN t.o
                  ELSE [uri |-> t.o,
                        local_name |-> get_local_name(t.o),
                        prefixed_name |-> get_prefixed_name(ns, t.o)]
      values(n) == Map(SelectSeq(ts, LAMBDA t : get_local_name(t.p) = n), value)
  IN  [n \in { get_local_name(ts[i].p) : i \in 1..Len(ts) } |->
         IF Len(values(n)) = 1 THEN values(n)[1] ELSE values(n)]

\* concatenation of a list of lists
RECURSIVE Concat(_)
Concat(seqs) == IF seqs = << >> THEN << >> ELSE Head(seqs) \o Concat(Tail(seqs))

\* concatenation of F(order[1]), F(order[2]), ...
FlatMap(order, F(_)) == Concat(Map(order, F))

\* _extract_individuals giving a subject one record, that of the first class
\* it is found under
extract_individuals_once_per_subject(g, ns, class_order) ==
  LET found == FlatMap(class_order, LAMBDA class_uri :
                 Map(triples(g, None, RDF_type, class_uri), LAMBDA t :
                   [uri |-> t.s, type |-> class_uri]))
      first == SelectSeq(found, LAMBDA r :
                 r = (CHOOSE x \in SetOf(found) : x.uri = r.uri
                        /\ \A i, j \in 1..Len(found) :
                             (found[i] = x /\ found[j].uri = r.uri) => i <= j))
  IN  Map(first, LAMBDA r :
        [uri |-> r.uri,
         local_name |-> get_local_name(r.uri),
         prefixed_name |-> get_prefixed_name(ns, r.uri),
         type |-> r.type,
         type_local_name |-> get_local_name(r.type),
         label |-> get_literal_value(g, r.uri, RDFS_NS \o "label"),
         comment |-> get_literal_value(g, r.uri, RDFS_NS \o "comment"),
         properties |-> get_individual_properties(g, ns, r.uri),
         same_as |-> Objects(g, r.uri, OWL_NS \o "sameAs"),
         different_from |-> Objects(g, r.uri, OWL_NS \o "differentFrom")])

\* class_order: the order in which the set `classes` is iterated
extract_individuals(g, ns, class_order) ==
  FlatMap(class_order, LAMBDA class_uri :
    Map(triples(g, None, RDF_type, class_uri), LAMBDA t :
      [uri |-> t.s,
       local_name |-> get_local_name(t.s),
       prefixed_name |-> get_prefixed_name(ns, t.s),
       type |-> class_uri,
       type_local_name |-> get_local_name(class_uri),
       label |-> get_literal_value(g, t.s, RDFS_NS \o "label"),
       comment |-> get_literal_value(g, t.s, RDFS_NS \o "comment"),
       properties |-> get_individual_properties(g, ns, t.s),
       same_as |-> Objects(g, t.s, OWL_NS \o "sameAs"),
       different_from |-> Objects(g, t.s, OWL_NS \o "differentFrom")]))

\* prop_order: the order in which the set `object_props` is iterated
extract_relationships(g, ns, prop_order) ==
  FlatMap(prop_order, LAMBDA prop_uri :
    Map(triples(g, None, prop_uri, None), LAMBDA t :
      [subject |-> t.s,
       predicate |-> t.p,
       object |-> t.o,
       subject_local_name |-> get_local_name(t.s),
       predicate_local_name |-> get_local_name(t.p),
       object_local_name |-> get_local_name(t.o),
       subject_prefixed |-> get_prefixed_name(ns, t.s),
       predicate_prefixed |-> get_prefixed_name(ns, t.p),
       object_prefixed |-> get_prefixed_name(ns, t.o)]))

is_system_type(type_uri) ==
  type_uri \in {OWL_Class, OWL_ObjectProperty, OWL_DatatypeProperty,
                OWL_AnnotationProperty, OWL_Ontology}

is_object_property(g, prop_uri) == HasType(g, prop_uri, OWL_ObjectProperty)

get_statistics(g, ns) ==
  IF g = << >> THEN EmptyDict ELSE
  [total_triples |-> Len(g),
   classes |-> Len(triples(g, None, RDF_type, OWL_Class)),
   object_properties |-> Len(triples(g, None, RDF_type, OWL_ObjectProperty)),
   datatype_properties |-> Len(triples(g, None, RDF_type, OWL_DatatypeProperty)),
   annotation_properties |-> Len(triples(g, None, RDF_type, OWL_AnnotationProperty)),
   individuals |->
     Cardinality({ t.s : t \in { x \in SetOf(triples(g, None, RDF_type, None)) :
                                   ~(~x.lit /\ is_system_type(x.o)) } }),
   namespaces |-> Len(ns),
   relationships |->
     Cardinality({ <<t.s, t.p, t.o>> : t \in { x \in SetOf(g) :
                                                is_object_property(g, x.p) } })]

\* _build_namespace_map: `if not self.rdf_graph: return` leaves the map empty
\* for a graph without triples (a Graph has __len__, so an empty one is falsy)
build_namespace_map(file) ==
  IF file.triples = << >> THEN << >> ELSE file.namespaces

\* the dict parse() returns when nothing raises
parsed_data(file, class_order, prop_order) ==
  LET g == file.triples
      ns == build_namespace_map(file)
  IN  [metadata |-> extract_metadata(g),
       classes |-> extract_classes(g, ns),
       properties |-> extract_properties(g, ns),
       individuals |-> extract_individuals(g, ns, class_order),
       relationships |-> extract_relationships(g, ns, prop_order),
       statistics |-> get_statistics(g, ns),
       namespaces |-> ns]

ttl_file_path == "ontology.ttl"

\* str(e) of the exception rdf_graph.parse raises
SyntaxError == "Bad syntax"

\* parse with the file check ahead of the library check
parse_file_check_first(rdflib_available, file_exists, syntax_ok, file, class_order, prop_order) ==
  IF ~file_exists THEN [error |-> "TTL file not found: " \o ttl_file_path]
  ELSE IF ~rdflib_available THEN [error |-> "rdflib not available for RDF parsing"]
  ELSE IF ~syntax_ok THEN [error |-> "Parsing failed: " \o SyntaxError]
  ELSE parsed_data(file, class_order, prop_order)

\* TTLParser.parse: library check, then file check, then parse and extraction
\* inside try/except; syntax_ok = FALSE is rdf_graph.parse raising
parse(rdflib_available, file_exists, syntax_ok, file, class_order, prop_order) ==
  IF ~rdflib_available THEN [error |-> "rdflib not available for RDF parsing"]
  ELSE IF ~file_exists THEN [error |-> "TTL file not found: " \o ttl_file_path]
  ELSE IF ~syntax_ok THEN [error |-> "Parsing failed: " \o SyntaxError]
  ELSE parsed_data(file, class_order, prop_order)

(***************************************************************************)
(* OntologyImporter                                                        *)
(***************************************************************************)
\* str.title() of a one-word lowercase layer name
title(s) == upper(CharAt(s, 1)) \o lower(SubSeq(s, 2, Len(s)))

\* insertion order of the dict {"business": [], "technical": [], "core": []}
LayerOrder == <<"business", "technical", "core">>

CategoryTitle(category) ==
  CASE category = "classes" -> "Classes"
    [] category = "properties" -> "Properties"
    [] category = "individuals" -> "Individuals"

\* An add_memory call is [category, key, name, episode_body, group_id, source,
\* source_description]: category and key say where import_results keeps the
\* response, the rest are the arguments. episode_body is the dict handed to
\* json.dumps.
metadata_call(metadata, group_id, framework_name) ==
  [category |-> "metadata", key |-> "metadata",
   name |-> framework_name \o " Ontology Metadata",
   episode_body |-> metadata,
   group_id |-> group_id, source |-> "json",
   source_description |-> "Ontology metadata for " \o framework_name \o " framework"]

\* the by-layer import without a bucket for core
layer_calls_without_core(category, entities, group_id, framework_name) ==
  LET bucket(layer_name) ==
        SelectSeq(entities,
                  LAMBDA e : Get(e, "primary_layer", "technical") = layer_name)
      filled == SelectSeq(<<"business", "technical">>,
                          LAMBDA layer_name : bucket(layer_name) # << >>)
  IN  Map(filled, LAMBDA layer_name :
        [category |-> category, key |-> layer_name,
         name |-> framework_name \o " " \o CategoryTitle(category) \o " - "
                  \o title(layer_name) \o " Layer",
         episode_body |->
           Put([layer |-> layer_name, framework |-> framework_name,
                count |-> Len(bucket(layer_name))],
               category, bucket(layer_name)),
         group_id |-> group_id, source |-> "json",
         source_description |-> framework_name \o " " \o layer_name \o " layer "
                                \o category])

\* _import_classes_by_layer, _import_properties_by_layer and
\* _import_individuals_by_layer differ in the category word alone
layer_calls(category, entities, group_id, framework_name) ==
  LET bucket(layer_name) ==
        SelectSeq(entities,
                  LAMBDA e : Get(e, "primary_layer", "technical") = layer_name)
      filled == SelectSeq(LayerOrder, LAMBDA layer_name : bucket(layer_name) # << >>)
  IN  Map(filled, LAMBDA layer_name :
        [category |-> category, key |-> layer_name,
         name |-> framework_name \o " " \o CategoryTitle(category) \o " - "
                  \o title(layer_name) \o " Layer",
         episode_body |->
           Put([layer |-> layer_name, framework |-> framework_name,
                count |-> Len(bucket(layer_name))],
               category, bucket(layer_name)),
         group_id |-> group_id, source |-> "json",
         source_description |-> framework_name \o " " \o layer_name \o " layer "
                                \o category])

relationship_calls(relationships, group_id, framework_name) ==
  LET predicate(rel) == Get(rel, "predicate_local_name", "unknown")
      rel_types == Dedup(Map(relationships, predicate), << >>)
      rel_list(rel_type) == SelectSeq(relationships, LAMBDA r : predicate(r) = rel_type)
  IN  Map(rel_types, LAMBDA rel_type :
        [category |-> "relationships", key |-> rel_type,
         name |-> framework_name \o " Relationships - " \o rel_type,
         episode_body |->
           [relationship_type |-> rel_type, framework |-> framework_name,
            relationships |-> rel_list(rel_type), count |-> Len(rel_list(rel_type))],
         group_id |-> group_id, source |-> "json",
         source_description |-> framework_name \o " " \o rel_type \o " relationships"])

ImportOrder == <<"metadata", "classes", "properties", "individuals", "relationships">>

\* the add_memory calls import_with_layers makes, in order, when none raises
import_calls(data, group_id, framework_name) ==
  FlatMap(SelectSeq(ImportOrder, LAMBDA c : c \in DOMAIN data), LAMBDA c :
    IF c = "metadata" THEN <<metadata_call(data[c], group_id, framework_name)>>
    ELSE IF c = "relationships" THEN relationship_calls(data[c], group_id, framework_name)
    ELSE layer_calls(c, data[c], group_id, framework_name))

\* import_results once calls[i] has returned got[i], for every i
import_results_of(data, calls, got) ==
  [c \in SetOf(ImportOrder) \cap DOMAIN data |->
     IF c = "metadata"
       THEN got[CHOOSE i \in 1..Len(calls) : calls[i].category = "metadata"]
       ELSE [k \in { calls[i].key : i \in { j \in 1..Len(calls) : calls[j].category = c } } |->
               got[CHOOSE i \in 1..Len(calls) :
                     calls[i].category = c /\ calls[i].key = k]]]

\* the values of a by-layer result are the sink's responses (dicts); the values
\* of the metadata result, itself a response, are str and are not counted
episodes_created(import_results) ==
  LET counted(c) ==
        IF c = "metadata" THEN {}
        ELSE { k \in DOMAIN import_results[c] : "message" \in DOMAIN import_results[c][k] }
      RECURSIVE total(_)
      total(cs) == IF cs = {} THEN 0
                   ELSE LET c == CHOOSE x \in cs : TRUE
                        IN  Cardinality(counted(c)) + total(cs \ {c})
  IN  total(DOMAIN import_results)

generate_import_summary(import_results, data) ==
  LET layer_stats == Get(data, "layer_statistics", EmptyDict)
      stats == Get(data, "statistics", EmptyDict)
  IN  [import_timestamp |-> "utcnow",
       episodes_created |-> episodes_created(import_results),
       entities_processed |->
         [classes |-> Get(stats, "classes", 0),
          properties |-> Get(stats, "object_properties", 0)
                         + Get(stats, "datatype_properties", 0),
          individuals |-> Get(stats, "individuals", 0),
          relationships |-> Get(stats, "relationships", 0)],
       layer_distribution |-> layer_stats,
       original_triples |-> Get(stats, "total_triples", 0),
       import_categories |-> SelectSeq(ImportOrder, LAMBDA c : c \in DOMAIN import_results)]

\* what import_with_layers returns when every call has returned
import_success(data, calls, got) ==
  LET import_results == import_results_of(data, calls, got)
  IN  [success |-> TRUE,
       results |-> import_results,
       summary |-> generate_import_summary(import_results, data)]

\* what the except clause returns when a call raises
import_failure(message) == [success |-> FALSE, error |-> message]

\* the sink's responses: a receipt, a failure value, or an exception
Receipt == [message |-> "Episode queued"]
FailureValue == [error |-> "Episode rejected"]
SinkException == "sink unreachable"

(***************************************************************************)
(* Inputs                                                                  *)
(***************************************************************************)
MaxTriples == 4
MaxSupplied == 2

EX == "http://ex.org/c5#"

Uri(s, p, o) == [s |-> s, p |-> p, o |-> o, lit |-> FALSE]
Lit(s, p, o) == [s |-> s, p |-> p, o |-> o, lit |-> TRUE]

\* the triples a file is made of
TripleUniverse ==
  << Uri(EX, RDF_type, OWL_Ontology),
     Uri(EX \o "Goal", RDF_type, OWL_Class),
     Uri(EX \o "Widget", RDF_type, OWL_Class),
     Uri(EX \o "Goal", RDFS_NS \o "subClassOf", EX \o "Widget"),
     Uri(EX \o "hasGoal", RDF_type, OWL_ObjectProperty),
     Uri(EX \o "note", RDF_type, OWL_AnnotationProperty),
     Uri(EX \o "w1", RDF_type, EX \o "Widget"),
     Uri(EX \o "w1", RDF_type, EX \o "Goal"),
     Uri(EX \o "w1", EX \o "hasGoal", EX \o "g1"),
     Lit(EX \o "w1", EX \o "hasGoal", EX \o "g1"),
     Lit(EX \o "w1", RDFS_NS \o "label", "First") >>

\* the prefixes bound in a file, in the order namespaces() yields them
NamespaceTables ==
  { << <<"owl", OWL_NS>>, <<"rdf", RDF_NS>>, <<"rdfs", RDFS_NS>>, <<"c5", EX>> >>,
    << <<"owl", OWL_NS>>, <<"rdf", RDF_NS>>, <<"rdfs", RDFS_NS>>,
       <<"ex", "http://ex.org/">>, <<"c5", EX>> >> }

Pick(seq, S) == SelectSeq(seq, LAMBDA x : \E i \in S : seq[i] = x)

Files ==
  { [namespaces |-> ns, triples |-> Pick(TripleUniverse, S)] :
      ns \in NamespaceTables,
      S \in { X \in SUBSET (1..Len(TripleUniverse)) : Cardinality(X) <= MaxTriples } }

\* entity dicts a caller hands to classify directly, tagged with their category
SuppliedEntities ==
  << [category |-> "classes",
      entity |-> [local_name |-> "GovernanceControl", subclass_of |-> << >>]],
     [category |-> "classes",
      entity |-> [local_name |-> "CalibrationCertificate",
                  prefixed_name |-> "lab:CalibrationCertificate",
                  label |-> "", comment |-> "", description |-> "",
                  subclass_of |-> <<"http://ex.org/lab#Record">>,
                  superclass_of |-> << >>]],
     [category |-> "classes",
      entity |-> [local_name |-> "Instrument", subclass_of |-> <<EX \o "Thing">>]],
     [category |-> "properties",
      entity |-> [local_name |-> "hasComment", prefixed_name |-> "ex:hasComment",
                  type |-> "AnnotationProperty",
                  label |-> "", comment |-> "", description |-> "",
                  domain |-> << >>, range |-> << >>]],
     [category |-> "properties",
      entity |-> [local_name |-> "hasComment", prefixed_name |-> "time:hasComment",
                  type |-> "AnnotationProperty",
                  label |-> "", comment |-> "", description |-> "",
                  domain |-> << >>, range |-> << >>]],
     [category |-> "properties",
      entity |-> [local_name |-> "relatesTo", type |-> "ObjectProperty",
                  domain |-> <<EX \o "Goal">>,
                  range |-> <<EX \o "Thing", EX \o "Widget">>,
                  functional |-> TRUE]],
     [category |-> "individuals",
      entity |-> [local_name |-> "EDM01", type |-> EX \o "Process",
                  type_local_name |-> "Process"]],
     [category |-> "individuals", entity |-> EmptyDict],
     [category |-> "individuals", entity |-> [local_name |-> "Asset"]],
     [category |-> "individuals",
      entity |-> [local_name |-> "Person", type_local_name |-> "Gadget"]],
     [category |-> "classes",
      entity |-> [local_name |-> "CalibrationCertificate",
                  layers |-> <<"technical">>, primary_layer |-> "technical"]],
     [category |-> "relationships",
      entity |-> [subject_local_name |-> "EDM01", predicate_local_name |-> "hasGoal",
                  object_local_name |-> "Goal1"]],
     [category |-> "relationships",
      entity |-> [subject_local_name |-> "Goal1", predicate_local_name |-> "partOf",
                  object_local_name |-> "Goal2"]],
     [category |-> "relationships",
      entity |-> [subject_local_name |-> "EDM02", object_local_name |-> "Goal2"]] >>

\* the dict made of the chosen entities; `full` adds the keys parse() returns,
\* `message` # None adds the error marker
SuppliedModel(S, full, message) ==
  LET chosen(category) ==
        Map(SelectSeq(Pick(SuppliedEntities, S), LAMBDA x : x.category = category),
            LAMBDA x : x.entity)
      lists == [c \in { c \in SetOf(Categories) \cup {"relationships"} :
                          full \/ chosen(c) # << >> } |-> chosen(c)]
      model == IF full
                 THEN Put(Put(lists, "metadata", EmptyDict),
                          "statistics", [classes |-> Len(chosen("classes")),
                                         individuals |-> Len(chosen("individuals")),
                                         relationships |-> Len(chosen("relationships"))])
                 ELSE lists
  IN  IF message = None THEN model ELSE Put(model, "error", message)

SuppliedModels ==
  { SuppliedModel(S, full, message) :
      S \in { X \in SUBSET (1..Len(SuppliedEntities)) : Cardinality(X) <= MaxSupplied },
      full \in BOOLEAN,
      message \in {None, "upstream failure"} }

(***************************************************************************)
(* The pipeline                                                            *)
(***************************************************************************)
VARIABLES
  pc,               \* "start", "parsed", "classified", "reclassified", "enhanced",
                    \* "importing", "done"
  parser,           \* [called, rdflib_available, file_exists, syntax_ok]: whether
                    \* parse() was called, and what it found
  rdf_graph,        \* TTLParser.rdf_graph, the triples read (none before that)
  ontology_data,    \* what parse() returned / what the caller handed in
  classified_data,  \* what classify() returned
  framework_name,   \* "Generic", "COBIT5" or "ISO17025"
  enhanced_data,    \* what the enhancer returned (classified_data when there is none)
  calls,            \* the add_memory calls made so far
  got,              \* the responses the calls that returned have produced
  import_result,    \* what import_with_layers returned
  classifier_ran    \* whether classified_data came out of classify()

vars == <<pc, parser, rdf_graph, ontology_data, classified_data, framework_name,
          enhanced_data, calls, got, import_result, classifier_ran, lexicons>>

Init ==
  /\ pc = "start"
  /\ parser = [called |-> FALSE, rdflib_available |-> FALSE,
               file_exists |-> FALSE, syntax_ok |-> FALSE]
  /\ rdf_graph = << >>
  /\ ontology_data = EmptyDict
  /\ classified_data = EmptyDict
  /\ framework_name = "Generic"
  /\ enhanced_data = EmptyDict
  /\ calls = << >>
  /\ got = << >>
  /\ import_result = EmptyDict
  /\ classifier_ran = FALSE
  /\ lexicons = "constructed"

\* TTLParser(path).parse() fails before or while reading the file
ParseFails ==
  /\ pc = "start"
  /\ \E rdflib_available, file_exists \in BOOLEAN :
       /\ ~(rdflib_available /\ file_exists)
       /\ parser' = [called |-> TRUE, rdflib_available |-> rdflib_available,
                     file_exists |-> file_exists, syntax_ok |-> FALSE]
       /\ ontology_data' = parse(rdflib_available, file_exists, FALSE,
                                 [namespaces |-> << >>, triples |-> << >>],
                                 << >>, << >>)
  /\ rdf_graph' = << >>
  /\ pc' = "parsed"
  /\ UNCHANGED <<classified_data, framework_name, enhanced_data, calls, got,
                 import_result>>
  /\ UNCHANGED <<classifier_ran, lexicons>>

\* rdf_graph.parse raises on the file's syntax
ParseRaises ==
  /\ pc = "start"
  /\ parser' = [called |-> TRUE, rdflib_available |-> TRUE,
                file_exists |-> TRUE, syntax_ok |-> FALSE]
  /\ ontology_data' = parse(TRUE, TRUE, FALSE,
                            [namespaces |-> << >>, triples |-> << >>], << >>, << >>)
  /\ rdf_graph' = << >>
  /\ pc' = "parsed"
  /\ UNCHANGED <<classified_data, framework_name, enhanced_data, calls, got,
                 import_result>>
  /\ UNCHANGED <<classifier_ran, lexicons>>

\* TTLParser(path).parse() on a readable file
Parse ==
  /\ pc = "start"
  /\ \E file \in Files :
       \E class_order \in Orderings(SetOf(Subjects(file.triples, RDF_type, OWL_Class))),
          prop_order \in Orderings(SetOf(Subjects(file.triples, RDF_type,
                                                  OWL_ObjectProperty))) :
         /\ parser' = [called |-> TRUE, rdflib_available |-> TRUE,
                       file_exists |-> TRUE, syntax_ok |-> TRUE]
         /\ rdf_graph' = file.triples
         /\ ontology_data' = parse(TRUE, TRUE, TRUE, file, class_order, prop_order)
  /\ pc' = "parsed"
  /\ UNCHANGED <<classified_data, framework_name, enhanced_data, calls, got,
                 import_result>>
  /\ UNCHANGED <<classifier_ran, lexicons>>

\* a caller hands a model to the classifier without the parser
Supply ==
  /\ pc = "start"
  /\ \E model \in SuppliedModels : ontology_data' = model
  /\ pc' = "parsed"
  /\ UNCHANGED <<parser, rdf_graph, classified_data, framework_name, enhanced_data,
                 calls, got, import_result>>
  /\ UNCHANGED <<classifier_ran, lexicons>>

\* LayerClassifier().classify(ontology_data)
Classify ==
  /\ pc = "parsed"
  /\ classified_data' = classify(ontology_data)
  /\ pc' = "classified"
  /\ UNCHANGED <<parser, rdf_graph, ontology_data, framework_name, enhanced_data,
                 calls, got, import_result>>
  /\ classifier_ran' = TRUE
  /\ UNCHANGED lexicons

\* a caller hands its model, classified elsewhere, straight to the analyzer or
\* the importer
SkipClassify ==
  /\ pc = "parsed"
  /\ ~parser.called
  /\ classified_data' = ontology_data
  /\ pc' = "classified"
  /\ UNCHANGED <<parser, rdf_graph, ontology_data, framework_name, enhanced_data,
                 calls, got, import_result, classifier_ran, lexicons>>

\* LayerClassifier().classify(classified_data): the classifier is run again on
\* its own output
Reclassify ==
  /\ pc = "classified"
  /\ classifier_ran
  /\ lexicons = "constructed"
  /\ classified_data' = classify(classified_data)
  /\ pc' = "reclassified"
  /\ UNCHANGED <<parser, rdf_graph, ontology_data, framework_name, enhanced_data,
                 calls, got, import_result, classifier_ran, lexicons>>

\* the caller replaces the lexicons of the analyzer it has constructed by empty
\* collections before it calls enhance_classification
ClearLexicons ==
  /\ pc = "classified"
  /\ lexicons = "constructed"
  /\ lexicons' = "emptied"
  /\ UNCHANGED <<pc, parser, rdf_graph, ontology_data, classified_data,
                 framework_name, enhanced_data, calls, got, import_result,
                 classifier_ran>>

\* COBIT5Analyzer().enhance_classification(classified_data)
EnhanceCOBIT5 ==
  /\ pc = "classified"
  /\ enhanced_data' = cobit5_enhance_classification(classified_data)
  /\ framework_name' = "COBIT5"
  /\ pc' = "enhanced"
  /\ UNCHANGED <<parser, rdf_graph, ontology_data, classified_data, calls, got,
                 import_result>>
  /\ UNCHANGED <<classifier_ran, lexicons>>

\* ISO17025Analyzer().enhance_classification(classified_data)
EnhanceISO17025 ==
  /\ pc = "classified"
  /\ enhanced_data' = iso17025_enhance_classification(classified_data)
  /\ framework_name' = "ISO17025"
  /\ pc' = "enhanced"
  /\ UNCHANGED <<parser, rdf_graph, ontology_data, classified_data, calls, got,
                 import_result>>
  /\ UNCHANGED <<classifier_ran, lexicons>>

\* no enhancer: the classified model goes to the importer as it is
NoEnhancer ==
  /\ pc = "classified"
  /\ lexicons = "constructed"
  /\ enhanced_data' = classified_data
  /\ framework_name' = "Generic"
  /\ pc' = "enhanced"
  /\ UNCHANGED <<parser, rdf_graph, ontology_data, classified_data, calls, got,
                 import_result>>
  /\ UNCHANGED <<classifier_ran, lexicons>>

GroupId == "ontology"

AllCalls == import_calls(enhanced_data, GroupId, framework_name)

\* import_with_layers without its error check
ImportStart_no_error_check ==
  /\ pc = "enhanced"
  /\ lexicons = "constructed"
  /\ IF AllCalls = << >>
       THEN /\ import_result' = import_success(enhanced_data, << >>, << >>)
            /\ calls' = << >>
            /\ pc' = "done"
       ELSE /\ calls' = <<AllCalls[1]>>
            /\ pc' = "importing"
            /\ UNCHANGED import_result
  /\ UNCHANGED <<parser, rdf_graph, ontology_data, classified_data, framework_name,
                 enhanced_data, got>>
  /\ UNCHANGED <<classifier_ran, lexicons>>

\* import_with_layers(enhanced_data, group_id, framework_name) up to its first await;
\* the models imported are those of analyzers with the lexicons they were
\* constructed with
ImportStart ==
  /\ pc = "enhanced"
  /\ lexicons = "constructed"
  /\ IF "error" \in DOMAIN enhanced_data
       THEN /\ import_result' = import_failure(enhanced_data["error"])
            /\ calls' = << >>
            /\ pc' = "done"
       ELSE IF AllCalls = << >>
         THEN /\ import_result' = import_success(enhanced_data, << >>, << >>)
              /\ calls' = << >>
              /\ pc' = "done"
         ELSE /\ calls' = <<AllCalls[1]>>
              /\ pc' = "importing"
              /\ UNCHANGED import_result
  /\ UNCHANGED <<parser, rdf_graph, ontology_data, classified_data, framework_name,
                 enhanced_data, got>>
  /\ UNCHANGED <<classifier_ran, lexicons>>

\* the awaited add_memory call returns `response`; import_with_layers runs on to
\* its next await, or to its return when that was the last call
Returned(response) ==
  /\ pc = "importing"
  /\ got' = Append(got, response)
  /\ IF Len(calls) < Len(AllCalls)
       THEN /\ calls' = Append(calls, AllCalls[Len(calls) + 1])
            /\ UNCHANGED <<pc, import_result>>
       ELSE /\ import_result' = import_success(enhanced_data, calls, got')
            /\ pc' = "done"
            /\ UNCHANGED calls
  /\ UNCHANGED <<parser, rdf_graph, ontology_data, classified_data, framework_name,
                 enhanced_data>>
  /\ UNCHANGED <<classifier_ran, lexicons>>

AddMemorySucceeds == Returned(Receipt)

AddMemoryRejects == Returned(FailureValue)

\* the awaited add_memory call raises: the except clause of import_with_layers
AddMemoryRaises ==
  /\ pc = "importing"
  /\ import_result' = import_failure(SinkException)
  /\ pc' = "done"
  /\ UNCHANGED <<parser, rdf_graph, ontology_data, classified_data, framework_name,
                 enhanced_data, calls, got>>
  /\ UNCHANGED <<classifier_ran, lexicons>>

Next ==
  \/ ParseFails
  \/ ParseRaises
  \/ Parse
  \/ Supply
  \/ Classify
  \/ SkipClassify
  \/ Reclassify
  \/ ClearLexicons
  \/ EnhanceCOBIT5
  \/ EnhanceISO17025
  \/ NoEnhancer
  \/ ImportStart
  \/ AddMemorySucceeds
  \/ AddMemoryRejects
  \/ AddMemoryRaises

Spec == Init /\ [][Next]_vars
(***************************************************************************)
(* Properties of the classifier                                            *)
(***************************************************************************)
Classified == pc \notin {"start", "parsed"} /\ classifier_ran

Enhanced == pc \in {"enhanced", "importing", "done"}

\* the categories of entity lists a model carries
CategoriesOf(data) == SetOf(Categories) \cap DOMAIN data

HasLayer(entity, layer_name) == layer_name \in SetOf(Get(entity, "layers", << >>))

\* C1 (totality of classification): once classify has run on a model without
\* error marker, every class, property and individual of the model, whatever
\* fields it has, is still there and carries a non-empty layer list and a
\* primary layer taken from that list.
C1_Totality ==
  (Classified /\ "error" \notin DOMAIN ontology_data) =>
    \A c \in CategoriesOf(ontology_data) :
      /\ c \in DOMAIN classified_data
      /\ Len(classified_data[c]) = Len(ontology_data[c])
      /\ \A i \in 1..Len(classified_data[c]) :
           LET entity == classified_data[c][i]
           IN  /\ {"layers", "primary_layer"} \subseteq DOMAIN entity
               /\ entity["layers"] # << >>
               /\ entity["primary_layer"] \in SetOf(entity["layers"])

\* an individual without any field and a class no rule fires on have been
\* classified, each into the default layer
C1_Witness ==
  /\ pc = "classified"
  /\ "error" \notin DOMAIN ontology_data
  /\ {"classes", "individuals"} \subseteq DOMAIN ontology_data
  /\ \E i \in 1..Len(ontology_data["individuals"]) :
       /\ ontology_data["individuals"][i] = EmptyDict
       /\ classified_data["individuals"][i]
            = [layers |-> <<"technical">>, primary_layer |-> "technical"]
  /\ \E i \in 1..Len(ontology_data["classes"]) :
       /\ indicated_layers(ontology_data["classes"][i], "class") = {}
       /\ classified_data["classes"][i]["layers"] = <<"technical">>

\* C2 (priority law): the primary layer of a classified entity is business
\* exactly when business is among its layers, else core exactly when core is
\* among them, and technical only when neither is.
C2_PriorityLaw ==
  (Classified /\ "error" \notin DOMAIN ontology_data) =>
    \A c \in CategoriesOf(classified_data) :
      \A i \in 1..Len(classified_data[c]) :
        LET entity == classified_data[c][i]
            primary == entity["primary_layer"]
        IN  /\ (primary = "business") <=> HasLayer(entity, "business")
            /\ (primary = "core")
                 <=> (HasLayer(entity, "core") /\ ~HasLayer(entity, "business"))
            /\ (primary = "technical")
                 <=> (~HasLayer(entity, "core") /\ ~HasLayer(entity, "business"))

\* one model holds an entity of business and core, whose primary layer is
\* business, and an entity of core without business, whose primary layer is core
C2_Witness ==
  /\ pc = "classified"
  /\ "error" \notin DOMAIN ontology_data
  /\ \E c \in CategoriesOf(classified_data) :
       \E i \in 1..Len(classified_data[c]) :
         /\ HasLayer(classified_data[c][i], "business")
         /\ HasLayer(classified_data[c][i], "core")
         /\ classified_data[c][i]["primary_layer"] = "business"
  /\ \E c \in CategoriesOf(classified_data) :
       \E i \in 1..Len(classified_data[c]) :
         /\ ~HasLayer(classified_data[c][i], "business")
         /\ HasLayer(classified_data[c][i], "core")
         /\ classified_data[c][i]["primary_layer"] = "core"

(***************************************************************************)
(* Properties of the enhancers                                             *)
(***************************************************************************)
\* C3 (enhancement monotonicity): for either analyzer and every entity, the
\* layers of the entity after enhance_classification include all the layers it
\* had before; the analyzer adds layers and removes none.
C3_EnhancementMonotonic ==
  (Enhanced /\ framework_name \in {"COBIT5", "ISO17025"}) =>
    \A c \in CategoriesOf(classified_data) :
      /\ c \in DOMAIN enhanced_data
      /\ Len(enhanced_data[c]) = Len(classified_data[c])
      /\ \A i \in 1..Len(classified_data[c]) :
           SetOf(Get(classified_data[c][i], "layers", << >>))
             \subseteq SetOf(Get(enhanced_data[c][i], "layers", << >>))

\* an analyzer has enhanced a model with a class that keeps a layer the
\* analyzer's own lexicon does not give it, and with an entity that gained a layer
C3_Witness ==
  /\ pc = "enhanced"
  /\ framework_name = "COBIT5"
  /\ "classes" \in DOMAIN classified_data
  /\ \E i \in 1..Len(classified_data["classes"]) :
       LET cls == classified_data["classes"][i]
       IN  \E layer_name \in SetOf(Get(cls, "layers", << >>)) :
             /\ layer_name \notin classify_cobit5_entity(Get(cls, "local_name", ""), "class")
             /\ HasLayer(enhanced_data["classes"][i], layer_name)
  /\ \E c \in CategoriesOf(classified_data) :
       \E i \in 1..Len(classified_data[c]) :
         /\ Get(classified_data[c][i], "layers", << >>) # << >>
         /\ \E layer_name \in SetOf(enhanced_data[c][i]["layers"]) :
              ~HasLayer(classified_data[c][i], layer_name)

\* C8 (enhancers pass the error marker through): handed a model that is the
\* error marker alone, either analyzer returns it unchanged, adding no key.
C8_EnhancersPassError ==
  (Enhanced /\ framework_name \in {"COBIT5", "ISO17025"}
     /\ DOMAIN classified_data = {"error"}) =>
    enhanced_data = classified_data

(***************************************************************************)
(* Properties of the error marker                                          *)
(***************************************************************************)
\* C7 (the classifier passes the error marker through): classify returns a
\* model that carries an error marker exactly as it was handed in.
C7_ClassifyPassesError ==
  (Classified /\ "error" \in DOMAIN ontology_data) =>
    classified_data = ontology_data

\* classify has run on a model with an error marker and entities to classify
C7_Witness ==
  /\ pc = "classified"
  /\ "error" \in DOMAIN ontology_data
  /\ \E c \in CategoriesOf(ontology_data) : ontology_data[c] # << >>

\* C9 (the importer refuses an errored model): when the model handed to
\* import_with_layers carries an error marker, no add_memory call is made and
\* the result is success False with the same error.
C9_ImporterRefusesError ==
  (pc \in {"importing", "done"} /\ "error" \in DOMAIN enhanced_data) =>
    /\ pc = "done"
    /\ calls = << >>
    /\ got = << >>
    /\ import_result = [success |-> FALSE, error |-> enhanced_data["error"]]

\* import_with_layers has returned on a model with an error marker that also
\* holds entities, which an import would have submitted
C9_Witness ==
  /\ pc = "done"
  /\ "error" \in DOMAIN enhanced_data
  /\ import_calls([k \in DOMAIN enhanced_data \ {"error"} |-> enhanced_data[k]],
                  GroupId, framework_name) # << >>

\* C10 (parse failure shape): when the library is missing, the file is missing
\* or reading it raises, parse returns a dict whose only key is "error"; the
\* library is checked before the file, so without the library the message is
\* the library's whether the file exists or not.
C10_ParseFailureShape ==
  (parser.called
     /\ ~(parser.rdflib_available /\ parser.file_exists /\ parser.syntax_ok)) =>
    /\ DOMAIN ontology_data = {"error"}
    /\ ~parser.rdflib_available =>
         ontology_data["error"] = "rdflib not available for RDF parsing"
    /\ (parser.rdflib_available /\ ~parser.file_exists) =>
         ontology_data["error"] = "TTL file not found: " \o ttl_file_path

\* parse has been called with neither the library nor the file there
C10_Witness ==
  /\ parser.called
  /\ ~parser.rdflib_available
  /\ ~parser.file_exists
  /\ "error" \in DOMAIN ontology_data

(***************************************************************************)
(* Properties of the import                                                *)
(***************************************************************************)
\* where import_results keeps the response to calls[i]
Recorded(i) ==
  /\ "results" \in DOMAIN import_result
  /\ calls[i].category \in DOMAIN import_result["results"]
  /\ IF calls[i].category = "metadata"
       THEN import_result["results"]["metadata"] = got[i]
       ELSE /\ calls[i].key \in DOMAIN import_result["results"][calls[i].category]
            /\ import_result["results"][calls[i].category][calls[i].key] = got[i]

\* C4 (submission isolation): a submission that fails, by raising or by a
\* failure value, does not keep the later groups from being attempted: when
\* import_with_layers has returned on a model without error marker, every
\* group of the model has been submitted.
C4_SubmissionIsolation ==
  (pc = "done" /\ "error" \notin DOMAIN enhanced_data) =>
    calls = AllCalls

\* C5 (truthful success flag): the result says success True only when every
\* submission succeeded.
C5_SuccessOnlyIfAllSucceeded ==
  (pc = "done" /\ import_result["success"]) =>
    /\ Len(got) = Len(calls)
    /\ \A i \in 1..Len(got) : got[i] = Receipt

\* C6 (per-group outcome on failure): when a submission has failed, the result
\* still records the outcome of every group that was submitted; the receipts
\* of the groups that went through are not dropped.
C6_OutcomesRecorded ==
  (pc = "done" /\ calls # << >>) =>
    \A i \in 1..Len(got) : Recorded(i)

(***************************************************************************)
(* Further properties of the classifier                                    *)
(***************************************************************************)
\* C11 (idempotence of classification): running classify on the model that
\* classify returned gives that model again: the same layers and primary
\* layer on every entity and the same layer_statistics; the layers and
\* primary_layer fields an entity already carries have no part in the result.
C11_ClassifyIdempotent ==
  (pc = "reclassified" /\ "error" \notin DOMAIN ontology_data) =>
    /\ classified_data = classify(ontology_data)
    /\ \A c \in CategoriesOf(ontology_data) :
         \A i \in 1..Len(ontology_data[c]) :
           LET entity == ontology_data[c][i]
               bare == [k \in DOMAIN entity \ {"layers", "primary_layer"} |-> entity[k]]
           IN  classified_data[c][i]["layers"] = determine_layers(bare, TypeOfCategory(c))

\* classify has run twice on a model one class of which came with layers of
\* its own, other than the layers classify gives it
C11_Witness ==
  /\ pc = "reclassified"
  /\ "error" \notin DOMAIN ontology_data
  /\ "classes" \in DOMAIN ontology_data
  /\ \E i \in 1..Len(ontology_data["classes"]) :
       /\ "layers" \in DOMAIN ontology_data["classes"][i]
       /\ classified_data["classes"][i]["layers"] # ontology_data["classes"][i]["layers"]
  /\ \E i \in 1..Len(ontology_data["classes"]) :
       /\ "layers" \notin DOMAIN ontology_data["classes"][i]
       /\ Get(ontology_data["classes"][i], "subclass_of", << >>) # << >>

\* the references an entity lists
ReferenceCount(entity) ==
    Len(Get(entity, "subclass_of", << >>)) + Len(Get(entity, "superclass_of", << >>))
  + Len(Get(entity, "domain", << >>)) + Len(Get(entity, "range", << >>))

\* C12 (relationship density): an entity of any category whose subclass_of,
\* superclass_of, domain and range lists, those it has, hold three references
\* or more between them is classified with core among its layers.
C12_RelationshipDensity ==
  (Classified /\ "error" \notin DOMAIN ontology_data) =>
    \A c \in CategoriesOf(ontology_data) :
      \A i \in 1..Len(ontology_data[c]) :
        ReferenceCount(ontology_data[c][i]) >= 3 =>
          HasLayer(classified_data[c][i], "core")

\* an entity with exactly three references, no core keyword in its name and
\* no other core rule applying has been classified
C12_Witness ==
  /\ pc = "classified"
  /\ classifier_ran
  /\ "error" \notin DOMAIN ontology_data
  /\ "properties" \in DOMAIN ontology_data
  /\ \E i \in 1..Len(ontology_data["properties"]) :
       LET entity == ontology_data["properties"][i]
       IN  /\ ReferenceCount(entity) = 3
           /\ ~AnyIn(core_keywords, lower(Get(entity, "local_name", "")))
           /\ HasLayer(classified_data["properties"][i], "core")

(***************************************************************************)
(* Properties of the layer assignment along the pipeline                   *)
(***************************************************************************)
LayerNames == {"business", "technical", "core"}

\* the layer the priority business > core > technical picks from a list
PriorityPick(layers) ==
  IF "business" \in SetOf(layers) THEN "business"
  ELSE IF "core" \in SetOf(layers) THEN "core"
  ELSE "technical"

WellFormedAssignment(entity) ==
  /\ {"layers", "primary_layer"} \subseteq DOMAIN entity
  /\ entity["layers"] # << >>
  /\ SetOf(entity["layers"]) \subseteq LayerNames
  /\ \A i \in 1..(Len(entity["layers"]) - 1) :
       StrLess(entity["layers"][i], entity["layers"][i + 1])
  /\ entity["primary_layer"] = PriorityPick(entity["layers"])

WellFormedModel(data) ==
  \A c \in CategoriesOf(data) :
    \A i \in 1..Len(data[c]) : WellFormedAssignment(data[c][i])

\* C13 (well-formed layer assignment along the pipeline): on every entity of a
\* model that classify produced, before and after zero or one analyzer, layers
\* is a non-empty, ascending, duplicate-free list of business, technical and
\* core, and primary_layer is the layer that the priority business > core >
\* technical picks from it.
C13_WellFormedAlongPipeline ==
  (Classified /\ "error" \notin DOMAIN ontology_data) =>
    /\ WellFormedModel(classified_data)
    /\ Enhanced => WellFormedModel(enhanced_data)

\* the laboratory analyzer has enhanced a classified model: one entity holds
\* business and core, and one entity's primary layer is not the one classify gave
C13_Witness ==
  /\ pc = "enhanced"
  /\ classifier_ran
  /\ framework_name = "ISO17025"
  /\ "error" \notin DOMAIN ontology_data
  /\ \E c \in CategoriesOf(enhanced_data) :
       \E i \in 1..Len(enhanced_data[c]) :
         {"business", "core"} \subseteq SetOf(enhanced_data[c][i]["layers"])
  /\ \E c \in CategoriesOf(enhanced_data) :
       \E i \in 1..Len(enhanced_data[c]) :
         enhanced_data[c][i]["primary_layer"] # classified_data[c][i]["primary_layer"]

\* C14 (graceful degradation of enhancement): with the lexicons of the
\* analyzer empty, enhance_classification returns the model it was handed, with
\* no entity field and no analysis key added.
C14_EmptyLexiconsNoOp ==
  (Enhanced /\ framework_name \in {"COBIT5", "ISO17025"} /\ lexicons = "emptied") =>
    enhanced_data = classified_data

(***************************************************************************)
(* Independence of the entities under classification                       *)
(***************************************************************************)
Reverse(seq) == [i \in 1..Len(seq) |-> seq[Len(seq) + 1 - i]]

\* the model that holds in category c the one entity and nothing else
Alone(c, entity) == [k \in {c} |-> <<entity>>]

\* C15 (independent, order-insensitive classification): what classify assigns
\* to an entity depends on the fields and the category of that entity and on
\* nothing else: the entity gets the same when it is classified as the only
\* entity of a model, and classifying the list in the reverse order gives the
\* same entities in the reverse order.
C15_EntitiesIndependent ==
  (pc = "classified" /\ classifier_ran /\ "error" \notin DOMAIN ontology_data) =>
    \A c \in CategoriesOf(ontology_data) :
      /\ \A i \in 1..Len(ontology_data[c]) :
           classify(Alone(c, ontology_data[c][i]))[c][1] = classified_data[c][i]
      /\ classify([ontology_data EXCEPT ![c] = Reverse(@)])[c]
           = Reverse(classified_data[c])

\* two entities of one category have been classified into different layers
C15_Witness ==
  /\ pc = "classified"
  /\ classifier_ran
  /\ "error" \notin DOMAIN ontology_data
  /\ \E c \in CategoriesOf(ontology_data) :
       /\ Len(classified_data[c]) >= 2
       /\ classified_data[c][1]["layers"] # classified_data[c][2]["layers"]
       /\ ~(SetOf(classified_data[c][1]["layers"])
              \subseteq SetOf(classified_data[c][2]["layers"]))

(***************************************************************************)
(* Properties of the bundles the import submits                            *)
(***************************************************************************)
\* the import has returned with every group submitted
Imported ==
  /\ pc = "done"
  /\ "error" \notin DOMAIN enhanced_data
  /\ import_result["success"]

\* the submitted bundles of a category, and the entities a bundle holds
BundlesOf(c) == SelectSeq(calls, LAMBDA call : call.category = c)

Members(call) ==
  IF call.category = "relationships" THEN call.episode_body["relationships"]
  ELSE call.episode_body[call.category]

\* the bundle an entity belongs in
BundleKey(c, entity) ==
  IF c = "relationships" THEN Get(entity, "predicate_local_name", "unknown")
  ELSE Get(entity, "primary_layer", "technical")

RECURSIVE TotalMembers(_)
TotalMembers(bundles) ==
  IF bundles = << >> THEN 0
  ELSE Len(Members(Head(bundles))) + TotalMembers(Tail(bundles))

\* C16 (the bundles partition the entities): of the classes, of the properties
\* and of the individuals, every entity is in the bundle of its primary layer
\* and in no other, none is left out, the count of a bundle is the number of
\* its entities, and no bundle is empty; the relationships are split the same
\* way, one bundle for each predicate local name.
C16_BundlesPartition ==
  Imported =>
    \A c \in (SetOf(Categories) \cup {"relationships"}) \cap DOMAIN enhanced_data :
      LET bundles == BundlesOf(c)
      IN  /\ \A n \in 1..Len(bundles) :
               /\ Members(bundles[n]) # << >>
               /\ bundles[n].episode_body["count"] = Len(Members(bundles[n]))
               /\ \A m \in 1..Len(Members(bundles[n])) :
                    BundleKey(c, Members(bundles[n])[m]) = bundles[n].key
               /\ \A k \in 1..Len(bundles) : bundles[k].key = bundles[n].key => k = n
          /\ TotalMembers(bundles) = Len(enhanced_data[c])
          /\ \A i \in 1..Len(enhanced_data[c]) :
               \E n \in 1..Len(bundles) :
                 /\ bundles[n].key = BundleKey(c, enhanced_data[c][i])
                 /\ enhanced_data[c][i] \in SetOf(Members(bundles[n]))

\* an import has submitted two bundles of one category, for entities of
\* different primary layers, and a bundle of relationships
C16_Witness ==
  /\ Imported
  /\ \E c \in CategoriesOf(enhanced_data) :
       /\ Len(BundlesOf(c)) >= 2
       /\ \E i \in 1..Len(enhanced_data[c]) :
            Get(enhanced_data[c][i], "primary_layer", "technical") = "core"
  /\ BundlesOf("relationships") # << >>

(***************************************************************************)
(* Scenarios                                                               *)
(***************************************************************************)
\* the text fields of an entity other than its local name are empty or absent
OtherTextEmpty(entity) ==
  \A k \in {"prefixed_name", "label", "comment", "description"} : Get(entity, k, "") = ""

\* C17 (Scenario A and the root-class rule): a class named GovernanceControl,
\* its other text fields empty and its subclass_of list empty, is classified
\* with business and core among its layers and business as its primary layer;
\* and every class with an empty subclass_of list has core among its layers.
C17_RootClassIsCore ==
  (Classified /\ "error" \notin DOMAIN ontology_data
     /\ "classes" \in DOMAIN ontology_data) =>
    \A i \in 1..Len(ontology_data["classes"]) :
      LET cls == ontology_data["classes"][i]
          classified == classified_data["classes"][i]
      IN  Get(cls, "subclass_of", << >>) = << >> =>
            /\ HasLayer(classified, "core")
            /\ (Get(cls, "local_name", "") = "GovernanceControl" /\ OtherTextEmpty(cls)) =>
                 /\ HasLayer(classified, "business")
                 /\ classified["primary_layer"] = "business"

\* the class GovernanceControl, with no superclass and no other text, has been
\* classified
C17_Witness ==
  /\ pc = "classified"
  /\ classifier_ran
  /\ "error" \notin DOMAIN ontology_data
  /\ "classes" \in DOMAIN ontology_data
  /\ \E i \in 1..Len(ontology_data["classes"]) :
       /\ ontology_data["classes"][i]
            = [local_name |-> "GovernanceControl", subclass_of |-> << >>]
       /\ classified_data["classes"][i]["layers"] = <<"business", "core">>

\* the property of Scenario B, whatever its prefixed name
AnnotationHasComment(prop) ==
  /\ Get(prop, "local_name", "") = "hasComment"
  /\ Get(prop, "type", "") = "AnnotationProperty"
  /\ Get(prop, "domain", << >>) = << >>
  /\ Get(prop, "range", << >>) = << >>
  /\ \A k \in {"label", "comment", "description"} : Get(prop, k, "") = ""

NoBusinessNamespace(prop) ==
  \A ns \in {"cobit5:", "iso17025:", "bfo:", "sosa:"} :
    ~StartsWith(Get(prop, "prefixed_name", ""), ns)

OnlyTechnical(entity) ==
  entity["layers"] = <<"technical">> /\ entity["primary_layer"] = "technical"

\* C18 as stated (Scenario B): the annotation property hasComment with empty
\* domain, range, label, comment and description and a prefixed name without
\* business-namespace prefix is classified with the layers ["technical"] and
\* the primary layer technical.
C18_ScenarioB_AsStated ==
  (Classified /\ "error" \notin DOMAIN ontology_data
     /\ "properties" \in DOMAIN ontology_data) =>
    \A i \in 1..Len(ontology_data["properties"]) :
      LET prop == ontology_data["properties"][i]
      IN  (AnnotationHasComment(prop) /\ NoBusinessNamespace(prop)) =>
            OnlyTechnical(classified_data["properties"][i])

\* C18 amended: the same, for a prefixed name that moreover contains no
\* business keyword and no core keyword (the prefixed name is part of the text
\* the keywords are looked for in).
C18_ScenarioB ==
  (Classified /\ "error" \notin DOMAIN ontology_data
     /\ "properties" \in DOMAIN ontology_data) =>
    \A i \in 1..Len(ontology_data["properties"]) :
      LET prop == ontology_data["properties"][i]
      IN  (/\ AnnotationHasComment(prop)
           /\ NoBusinessNamespace(prop)
           /\ ~AnyIn(business_keywords \cup core_keywords,
                     lower(Get(prop, "prefixed_name", "")))) =>
            OnlyTechnical(classified_data["properties"][i])

\* the property ex:hasComment of Scenario B has been classified
C18_Witness ==
  /\ pc = "classified"
  /\ classifier_ran
  /\ "error" \notin DOMAIN ontology_data
  /\ "properties" \in DOMAIN ontology_data
  /\ \E i \in 1..Len(ontology_data["properties"]) :
       /\ AnnotationHasComment(ontology_data["properties"][i])
       /\ ontology_data["properties"][i]["prefixed_name"] = "ex:hasComment"
       /\ OnlyTechnical(classified_data["properties"][i])

\* the record parse returns for a readable file
ParsedFile ==
  parser.called /\ parser.rdflib_available /\ parser.file_exists /\ parser.syntax_ok

StatisticsFields ==
  {"total_triples", "classes", "object_properties", "datatype_properties",
   "annotation_properties", "individuals", "namespaces", "relationships"}

\* C19 (Scenario C): parse of a file without triples returns no error but a
\* model whose classes, properties, individuals and relationships are empty
\* lists, whose metadata is empty and whose statistics has each of its eight
\* fields, every one zero.
C19_ScenarioC ==
  (ParsedFile /\ rdf_graph = << >>) =>
    /\ "error" \notin DOMAIN ontology_data
    /\ \A c \in {"classes", "properties", "individuals", "relationships"} :
         ontology_data[c] = << >>
    /\ ontology_data["metadata"] = EmptyDict
    /\ \A field \in StatisticsFields :
         /\ field \in DOMAIN ontology_data["statistics"]
         /\ ontology_data["statistics"][field] = 0

\* C20 (Scenario D and the laboratory business terms): the laboratory
\* analyzer, with the lexicons it is constructed with, gives every class whose
\* local name contains a laboratory business-entity term the layer business;
\* the class CalibrationCertificate handed in with the layers ["technical"]
\* comes back with business and technical, the primary layer business and an
\* iso17025_clause that is a key of the keyword-to-clause dictionary.
C20_ScenarioD ==
  (pc = "enhanced" /\ framework_name = "ISO17025" /\ lexicons = "constructed"
     /\ "classes" \in DOMAIN classified_data) =>
    \A i \in 1..Len(classified_data["classes"]) :
      LET before == classified_data["classes"][i]
          after == enhanced_data["classes"][i]
          local_name == Get(before, "local_name", "")
      IN  /\ (\E term \in laboratory_business_entities :
                Contains(lower(term), lower(local_name))) =>
               HasLayer(after, "business")
          /\ (local_name = "CalibrationCertificate"
                /\ Get(before, "layers", << >>) = <<"technical">>) =>
               /\ after["layers"] = <<"business", "technical">>
               /\ after["primary_layer"] = "business"
               /\ after["iso17025_clause"] \in DOMAIN clause_mapping

\* the laboratory analyzer has enhanced the class CalibrationCertificate that
\* came with the layers ["technical"]
C20_Witness ==
  /\ pc = "enhanced"
  /\ framework_name = "ISO17025"
  /\ lexicons = "constructed"
  /\ "classes" \in DOMAIN classified_data
  /\ \E i \in 1..Len(classified_data["classes"]) :
       /\ Get(classified_data["classes"][i], "local_name", "") = "CalibrationCertificate"
       /\ Get(classified_data["classes"][i], "layers", << >>) = <<"technical">>
       /\ enhanced_data["classes"][i]["iso17025_clause"] = "7"

(***************************************************************************)
(* Properties of the statistics                                            *)
(***************************************************************************)
\* the entities of a category, none when the model has no such key
EntitiesOf(data, c) == Get(data, c, << >>)

\* how many entities of category c have the primary layer L
WithPrimary(data, c, L) ==
  Cardinality({ i \in 1..Len(EntitiesOf(data, c)) :
                  Get(EntitiesOf(data, c)[i], "primary_layer", None) = L })

LayerCountsExact(data) ==
  LET stats == data["layer_statistics"]
  IN  /\ \A c \in SetOf(Categories) :
           /\ \A L \in {"business", "technical", "core"} :
                stats[L][c] = WithPrimary(data, c, L)
           /\ stats["business"][c] + stats["technical"][c] + stats["core"][c]
                = Len(EntitiesOf(data, c))
           /\ stats["multi_layer"][c]
                = Cardinality({ i \in 1..Len(EntitiesOf(data, c)) :
                                  Len(EntitiesOf(data, c)[i]["layers"]) > 1 })
      /\ \A row \in DOMAIN stats :
           stats[row]["total"] = stats[row]["classes"] + stats[row]["properties"]
                                   + stats[row]["individuals"]

\* C21: the layer_statistics classify produces are exact: each layer's count
\* for a category is the number of that category's entities with that primary
\* layer, so the three counts add up to the number of entities; multi_layer
\* counts the entities with more than one layer; each total is the sum of its
\* row's three counts.
C21_LayerStatisticsExact ==
  (Classified /\ "error" \notin DOMAIN classified_data) =>
    /\ DOMAIN classified_data["layer_statistics"]
         = {"business", "technical", "core", "multi_layer"}
    /\ LayerCountsExact(classified_data)

\* classify has counted a category holding an entity with several layers whose
\* primary layer is not the only row it could have been counted in
C21_Witness ==
  /\ Classified
  /\ "error" \notin DOMAIN classified_data
  /\ \E c \in CategoriesOf(classified_data) :
       /\ Len(classified_data[c]) >= 2
       /\ classified_data["layer_statistics"]["multi_layer"][c] >= 1
       /\ \E L1, L2 \in {"business", "technical", "core"} :
            /\ L1 # L2
            /\ classified_data["layer_statistics"][L1][c] >= 1
            /\ classified_data["layer_statistics"][L2][c] >= 1

\* C22: after classify followed by an enhancer, layer_statistics (which the
\* import summary copies as layer_distribution) still gives, for each layer
\* and category, the number of entities of the category whose final primary
\* layer is that layer.
C22_StatisticsFollowEnhancer ==
  (Classified /\ Enhanced /\ framework_name \in {"COBIT5", "ISO17025"}
     /\ lexicons = "constructed" /\ "error" \notin DOMAIN enhanced_data) =>
    \A c \in SetOf(Categories) : \A L \in {"business", "technical", "core"} :
      enhanced_data["layer_statistics"][L][c] = WithPrimary(enhanced_data, c, L)

(***************************************************************************)
(* Properties of the extraction                                            *)
(***************************************************************************)
\* p is the subject of a triple (p, rdf:type, owl:ObjectProperty)
DeclaredObjectProperty(p) == HasType(rdf_graph, p, OWL_ObjectProperty)

\* the triples of the graph whose predicate is a declared object property
RelationshipTriples ==
  { i \in 1..Len(rdf_graph) : DeclaredObjectProperty(rdf_graph[i].p) }

\* every edge has a declared object property as its predicate, and the edges
\* are the triples with such a predicate, one edge for each
EdgesAreRelationshipTriples ==
  LET edges == ontology_data["relationships"]
  IN  /\ \A j \in 1..Len(edges) : DeclaredObjectProperty(edges[j].predicate)
      /\ Len(edges) = Cardinality(RelationshipTriples)
      /\ \A i \in RelationshipTriples :
           \E j \in 1..Len(edges) :
             /\ edges[j].subject = rdf_graph[i].s
             /\ edges[j].predicate = rdf_graph[i].p
             /\ edges[j].object = rdf_graph[i].o

\* C23: every relationship edge parse produces has a predicate declared as an
\* owl:ObjectProperty in the file, every triple with such a predicate yields
\* exactly one edge, and statistics.relationships is the number of edges in
\* the relationships list.
C23_RelationshipEdges ==
  ParsedFile =>
    /\ EdgesAreRelationshipTriples
    /\ "relationships" \in DOMAIN ontology_data["statistics"]
    /\ ontology_data["statistics"]["relationships"]
         = Len(ontology_data["relationships"])

\* the URIs that occur as subject or as object of a triple of the graph
GraphUris ==
  { rdf_graph[i].s : i \in 1..Len(rdf_graph) }
  \cup { rdf_graph[i].o : i \in { j \in 1..Len(rdf_graph) : ~rdf_graph[j].lit } }

\* the individual records of subject s with type C
RecordsOf(s, C) ==
  { j \in 1..Len(ontology_data["individuals"]) :
      /\ ontology_data["individuals"][j].uri = s
      /\ ontology_data["individuals"][j].type = C }

\* C24: parse emits one individual record for each pair of a subject s and a
\* class C such that (C, rdf:type, owl:Class) and (s, rdf:type, C) are triples
\* of the file, and no other record: a subject with two declared class types
\* has two records, a subject typed only by undeclared classes has none.
C24_IndividualPerDeclaredType ==
  (ParsedFile /\ pc = "parsed") =>
    /\ \A s \in GraphUris : \A C \in GraphUris :
         Cardinality(RecordsOf(s, C))
           = IF HasType(rdf_graph, C, OWL_Class) /\ HasType(rdf_graph, s, C)
               THEN 1 ELSE 0
    /\ \A j \in 1..Len(ontology_data["individuals"]) :
         /\ ontology_data["individuals"][j].uri \in GraphUris
         /\ ontology_data["individuals"][j].type \in GraphUris

\* a file where w1 is typed by the two declared classes Goal and Widget
C24_Witness ==
  /\ ParsedFile
  /\ Cardinality(RecordsOf(EX \o "w1", EX \o "Goal")) = 1
  /\ Cardinality(RecordsOf(EX \o "w1", EX \o "Widget")) = 1
  /\ Len(ontology_data["individuals"]) = 2

\* a file where w1 is typed by a class the file does not declare
C24_WitnessUndeclared ==
  /\ ParsedFile
  /\ HasType(rdf_graph, EX \o "w1", EX \o "Widget")
  /\ ~HasType(rdf_graph, EX \o "Widget", OWL_Class)
  /\ ontology_data["individuals"] = << >>

\* C25: the statistics of a parsed file are counts of the extracted lists:
\* statistics.individuals is the number of individual records,
\* statistics.classes the number of class records, and object_properties +
\* datatype_properties + annotation_properties the number of property records.
C25_StatisticsCountRecords ==
  ParsedFile =>
    LET stats == ontology_data["statistics"]
    IN  /\ {"individuals", "classes", "object_properties", "datatype_properties",
            "annotation_properties"} \subseteq DOMAIN stats
        /\ stats["individuals"] = Len(ontology_data["individuals"])
        /\ stats["classes"] = Len(ontology_data["classes"])
        /\ stats["object_properties"] + stats["datatype_properties"]
             + stats["annotation_properties"] = Len(ontology_data["properties"])

\* prefix:rest for a namespace of the table with the longest URI that the given
\* URI starts with; the bare local name when the table has none
IsLongestPrefixedName(name, namespace_map, uri) ==
  LET hits == { k \in 1..Len(namespace_map) : StartsWith(uri, namespace_map[k][2]) }
  IN  IF hits = {} THEN name = get_local_name(uri)
      ELSE \E k \in hits :
             /\ \A m \in hits : Len(namespace_map[m][2]) <= Len(namespace_map[k][2])
             /\ name = namespace_map[k][1] \o ":"
                         \o SubSeq(uri, Len(namespace_map[k][2]) + 1, Len(uri))

\* C26: the prefixed name of every extracted entity is built from the longest
\* namespace of the table that is a prefix of the entity's URI, also when a
\* shorter namespace of the table is a prefix of the same URI, and is the bare
\* local name when no namespace matches.
C26_LongestNamespace ==
  ParsedFile =>
    \A c \in SetOf(Categories) : \A i \in 1..Len(ontology_data[c]) :
      IsLongestPrefixedName(ontology_data[c][i].prefixed_name,
                            ontology_data["namespaces"], ontology_data[c][i].uri)

(***************************************************************************)
(* Properties of the framework analysis                                    *)
(***************************************************************************)
\* the local names of the classes, properties and individuals of a model
LocalNamesOf(data) ==
  { Get(AllEntities(data)[i], "local_name", "") : i \in 1..Len(AllEntities(data)) }

NoDuplicates(seq) == \A i, j \in 1..Len(seq) : seq[i] = seq[j] => i = j

\* C27: the framework analysis covers every entity: after the COBIT5 analyzer
\* domains_found holds, once each, the domain codes that occur in the local
\* name of any class, property or individual; after the ISO17025 analyzer
\* clauses_covered holds the clauses matched by any class, property or
\* individual; coverage_percentage is the number found out of five, times 100,
\* and compliance_readiness is high from four clauses, medium from two, low
\* below.
C27_AnalysisCoversAllEntities ==
  (Classified /\ Enhanced /\ lexicons = "constructed"
     /\ "error" \notin DOMAIN enhanced_data) =>
    /\ framework_name = "COBIT5" =>
         LET analysis == enhanced_data["cobit5_analysis"]
             occurring == { code \in SetOf(cobit5_domains) :
                              \E n \in LocalNamesOf(enhanced_data) :
                                Contains(code, upper(n)) }
         IN  /\ NoDuplicates(analysis["domains_found"])
             /\ SetOf(analysis["domains_found"]) = occurring
             /\ analysis["governance_coverage"]["coverage_percentage"]
                  = (Cardinality(occurring) * 100) \div 5
    /\ framework_name = "ISO17025" =>
         LET analysis == enhanced_data["iso17025_analysis"]
             matched == { get_iso17025_clause(n) : n \in LocalNamesOf(enhanced_data) }
                          \ {None}
         IN  /\ NoDuplicates(analysis["clauses_covered"])
             /\ SetOf(analysis["clauses_covered"]) = matched
             /\ analysis["laboratory_coverage"]["coverage_percentage"]
                  = (Cardinality(matched) * 100) \div 5
             /\ analysis["compliance_readiness"]
                  = IF Cardinality(matched) >= 4 THEN "high"
                    ELSE IF Cardinality(matched) >= 2 THEN "medium"
                    ELSE "low"

(***************************************************************************)
(* Properties of the import summary                                        *)
(***************************************************************************)
\* C28: the entity counts of the summary of an import are those of the model
\* that was imported: entities_processed.classes, .properties, .individuals
\* and .relationships are the numbers of class, property, individual and
\* relationship records (properties of all three kinds, annotation properties
\* included), and original_triples is the number of triples of the file.
C28_SummaryCountsMatch ==
  (Imported /\ ParsedFile) =>
    LET summary == import_result["summary"]
    IN  /\ \A c \in {"classes", "properties", "individuals", "relationships"} :
             summary["entities_processed"][c] = Len(enhanced_data[c])
        /\ summary["original_triples"] = Len(rdf_graph)

\* C29: when every add_memory call of an import returned a receipt,
\* episodes_created is the number of calls made in the run: the metadata
\* bundle, the non-empty layer bundles of the classes, the properties and the
\* individuals, and the relationship bundles.
C29_EpisodesAreSubmissions ==
  (Imported /\ \A i \in 1..Len(got) : got[i] = Receipt) =>
    import_result["summary"]["episodes_created"] = Len(calls)

(***************************************************************************)
(* What classification and enhancement leave alone                         *)
(***************************************************************************)
ClassifierFields == {"layers", "primary_layer"}

EnhancerFields ==
  ClassifierFields
  \cup {"cobit5_domain", "business_relevance", "governance_relevance",
        "cobit5_process_code"}
  \cup {"iso17025_clause", "laboratory_relevance", "measurement_relevance",
        "laboratory_function"}

\* `after` has the entities of `before`, as many and in the same order, each
\* with the fields it had apart from those in `own`, and the relationships,
\* the metadata and the statistics of `before`
FrameKept(before, after, own) ==
  /\ CategoriesOf(after) = CategoriesOf(before)
  /\ \A c \in CategoriesOf(before) :
       /\ Len(after[c]) = Len(before[c])
       /\ \A i \in 1..Len(before[c]) :
            \A k \in (DOMAIN before[c][i] \cup DOMAIN after[c][i]) \ own :
              /\ k \in DOMAIN before[c][i]
              /\ k \in DOMAIN after[c][i]
              /\ after[c][i][k] = before[c][i][k]
  /\ \A k \in {"relationships", "metadata", "statistics"} :
       /\ k \in DOMAIN after <=> k \in DOMAIN before
       /\ k \in DOMAIN before => after[k] = before[k]

\* C30: classify and the two enhance_classification operations leave the
\* model they are given as it was, and what they return has the same entities
\* in the same order, each agreeing with its input on every field other than
\* layers, primary_layer and the enhancer's own fields, with the
\* relationships, the metadata and the statistics carried over.
C30_InputUntouched ==
  /\ [](Classified => FrameKept(ontology_data, classified_data, ClassifierFields))
  /\ []((Enhanced /\ framework_name \in {"COBIT5", "ISO17025"}) =>
          FrameKept(classified_data, enhanced_data, EnhancerFields))
  /\ [][/\ (pc = "parsed" /\ pc' = "classified") => ontology_data' = ontology_data
        /\ (pc = "classified" /\ pc' = "enhanced") =>
             /\ ontology_data' = ontology_data
             /\ classified_data' = classified_data]_vars

\* the class Instrument, handed in with its list of superclasses next to a
\* relationship and statistics, has gone through classify and the analyzer
\* that widens its layers
C30_Witness ==
  /\ Classified
  /\ Enhanced
  /\ framework_name = "ISO17025"
  /\ {"classes", "relationships", "statistics"} \subseteq DOMAIN enhanced_data
  /\ enhanced_data["relationships"] # << >>
  /\ enhanced_data["relationships"] = ontology_data["relationships"]
  /\ Len(ontology_data["classes"]) = 1
  /\ ontology_data["classes"][1]
       = [local_name |-> "Instrument", subclass_of |-> <<EX \o "Thing">>]
  /\ enhanced_data["classes"][1]["subclass_of"] = <<EX \o "Thing">>
  /\ enhanced_data["classes"][1]["layers"] # classified_data["classes"][1]["layers"]

====
